---- MODULE Spec2Model ----
(***************************************************************************)
(* Model of the FooGood shopping-list service                              *)
(* (src/src/services/shoppingListService.js) and of the recipe             *)
(* orchestrator (src/src/services/aiRecipeService.js).                     *)
(*                                                                         *)
(* JavaScript values: text that is compared or concatenated only (amounts, *)
(* priorities, categories, flags) is a TLA+ string, the value `undefined`  *)
(* being the string Undefined; names, which the code lower-cases, trims    *)
(* and searches, are sequences of one-letter strings ("ae", "oe", "aa"     *)
(* stand for the Danish letters).  The addedDate timestamp of a shopping   *)
(* entry is not modelled.                                                  *)
(***************************************************************************)
EXTENDS Integers, Sequences, FiniteSets, TLC

\* ------------------------------------------------------------------ bounds
\* identifiers the id generator may hand out in one behaviour
MaxId == 2
\* longest amount text an entry may reach through merges
MaxAmountLen == 7
\* calls made in a run in which calls overlap
MaxCalls == 3
\* the items, the user categories and the reminders created in a run
MaxCreated == 1
\* calls of addCategory, editCategory and removeCategory made in a run
MaxCategoryCalls == 2
\* the longest list handed to getShoppingStats
MaxStatsLen == 40
\* loadAIRecipes calls made on the recipes screen in a run
MaxLoads == 3

Procs == {1, 2}

\* ------------------------------------------------------- JavaScript values
Undefined == "<undefined>"
JTrue == "true"
JFalse == "false"

\* truthiness of a value, as `||`, `!` and `? :` see it
Truthy(v) == v \notin {Undefined, JFalse, ""}

\* a || b
JsOr(a, b) == IF Truthy(a) THEN a ELSE b

\* `${v}` : the text a template literal inserts for v
TemplateText(v) == IF v = Undefined THEN "undefined" ELSE v

\* ------------------------------------------------------------------ names
UpperToLower == [c \in {"M", "O"} |-> IF c = "M" THEN "m" ELSE "o"]

ToLowerCase(s) ==
  [i \in 1..Len(s) |-> IF s[i] \in DOMAIN UpperToLower THEN UpperToLower[s[i]] ELSE s[i]]

RECURSIVE TrimStart(_)
TrimStart(s) == IF s # <<>> /\ Head(s) = " " THEN TrimStart(Tail(s)) ELSE s

RECURSIVE TrimEnd(_)
TrimEnd(s) ==
  IF s # <<>> /\ s[Len(s)] = " " THEN TrimEnd(SubSeq(s, 1, Len(s) - 1)) ELSE s

Trim(s) == TrimEnd(TrimStart(s))

\* s.includes(w)
Includes(s, w) ==
  \E i \in 1..(Len(s) - Len(w) + 1) : SubSeq(s, i, i + Len(w) - 1) = w

\* (mutant) the key without the trim
NameKeyUntrimmed(name) == ToLowerCase(name)

\* the identity key the two add operations compare: name.toLowerCase().trim()
NameKey(name) == Trim(ToLowerCase(name))

\* ------------------------------------------------------------ categorizer
\* the keyword table of categorizeIngredient, in the order the code tests it
CategoryRules == <<
  [name |-> "Mejeriprodukter", icon |-> "milk-glass", words |-> {
     <<"m","ae","l","k">>,
     <<"f","l","oe","d","e">>,
     <<"y","o","g","h","u","r","t">>,
     <<"o","s","t">>,
     <<"s","m","oe","r">>,
     <<"k","ae","r","n","e","m","ae","l","k">> }],
  [name |-> "Koed & Fisk", icon |-> "meat", words |-> {
     <<"k","oe","d">>,
     <<"k","y","l","l","i","n","g">>,
     <<"o","k","s","e","k","oe","d">>,
     <<"s","v","i","n","e","k","oe","d">>,
     <<"f","i","s","k">>,
     <<"l","a","k","s">>,
     <<"t","u","n","a">>,
     <<"h","a","k","k","e","t">> }],
  [name |-> "Groentsager", icon |-> "carrot", words |-> {
     <<"l","oe","g">>,
     <<"g","u","l","e","r","o","d">>,
     <<"k","a","r","t","o","f","f","e","l">>,
     <<"t","o","m","a","t">>,
     <<"s","a","l","a","t">>,
     <<"p","e","b","e","r","f","r","u","g","t">>,
     <<"b","r","o","c","c","o","l","i">>,
     <<"s","p","i","n","a","t">>,
     <<"c","o","u","r","g","e","t","t","e">>,
     <<"a","u","b","e","r","g","i","n","e">>,
     <<"a","g","u","r","k">>,
     <<"g","r","oe","n","t","s","a","g">> }],
  [name |-> "Frugt", icon |-> "apple", words |-> {
     <<"ae","b","l","e">>,
     <<"b","a","n","a","n">>,
     <<"a","p","p","e","l","s","i","n">>,
     <<"c","i","t","r","o","n">>,
     <<"p","ae","r","e">>,
     <<"j","o","r","d","b","ae","r">>,
     <<"b","l","aa","b","ae","r">>,
     <<"k","i","w","i">>,
     <<"m","a","n","g","o">>,
     <<"a","n","a","n","a","s">>,
     <<"f","r","u","g","t">> }],
  [name |-> "Broed & Korn", icon |-> "bread", words |-> {
     <<"b","r","oe","d">>,
     <<"p","a","s","t","a">>,
     <<"r","i","s">>,
     <<"m","e","l">>,
     <<"h","a","v","r","e","g","r","y","n">>,
     <<"q","u","i","n","o","a">>,
     <<"b","u","l","g","u","r">> }],
  [name |-> "Krydderier", icon |-> "salt", words |-> {
     <<"s","a","l","t">>,
     <<"p","e","b","e","r">>,
     <<"k","r","y","d","d","e","r","i">>,
     <<"o","r","e","g","a","n","o">>,
     <<"b","a","s","i","l","i","k","u","m">>,
     <<"s","o","j","a">>,
     <<"o","l","i","e">>,
     <<"e","d","d","i","k","e">>,
     <<"h","o","n","n","i","n","g">>,
     <<"s","u","k","k","e","r">> }],
  [name |-> "Aeg", icon |-> "egg", words |-> {
     <<"ae","g">> }]
>>

RECURSIVE FirstRule(_, _)
FirstRule(lowerName, i) ==
  IF i > Len(CategoryRules) THEN [name |-> "Andre", icon |-> "cart"]
  ELSE IF \E w \in CategoryRules[i].words : Includes(lowerName, w)
       THEN [name |-> CategoryRules[i].name, icon |-> CategoryRules[i].icon]
       ELSE FirstRule(lowerName, i + 1)

categorizeIngredient(name) == FirstRule(ToLowerCase(name), 1)

\* (mutant) joins the two amounts even when they are identical
CombineAmountsAlwaysJoins(amount1, amount2) ==
  TemplateText(amount1) \o " + " \o TemplateText(amount2)

\* ------------------------------------------------- shopping list: helpers
\* combineAmounts(amount1, amount2)
combineAmounts(amount1, amount2) ==
  IF amount1 = amount2 THEN amount1
  ELSE TemplateText(amount1) \o " + " \o TemplateText(amount2)

\* priorityOrder[p] of getHigherPriority; 0 stands for the `undefined` a key
\* outside the table yields
priorityOrder(p) ==
  CASE p = "high" -> 3 [] p = "medium" -> 2 [] p = "low" -> 1 [] OTHER -> 0

\* a >= b on two table lookups: false as soon as one of them is undefined
OrderGeq(a, b) == a # 0 /\ b # 0 /\ a >= b

getHigherPriority(priority1, priority2) ==
  IF OrderGeq(priorityOrder(priority1), priorityOrder(priority2))
  THEN priority1 ELSE priority2

\* currentList.findIndex(existing => key(existing.name) = key(item.name)); 0 for -1
RECURSIVE FindFrom(_, _, _)
FindFrom(list, key, i) ==
  IF i > Len(list) THEN 0
  ELSE IF NameKey(list[i].name) = key THEN i ELSE FindFrom(list, key, i + 1)

\* (mutant) compares the names as written
RECURSIVE FindExactFrom(_, _, _)
FindExactFrom(list, name, i) ==
  IF i > Len(list) THEN 0
  ELSE IF list[i].name = name THEN i ELSE FindExactFrom(list, name, i + 1)

FindIndexByExactName(list, name) == FindExactFrom(list, name, 1)

findIndexByName(list, name) == FindFrom(list, NameKey(name), 1)

\* currentList.findIndex(item => item.id === itemId); 0 for -1
RECURSIVE FindIdFrom(_, _, _)
FindIdFrom(list, itemId, i) ==
  IF i > Len(list) THEN 0
  ELSE IF list[i].id = itemId THEN i ELSE FindIdFrom(list, itemId, i + 1)

findIndexById(list, itemId) == FindIdFrom(list, itemId, 1)

\* (mutant) the merge takes the essential flag of the new item
MergedEntryOverwritesEssential(existing, item) ==
  [existing EXCEPT
     !.amount = combineAmounts(existing.amount, item.amount),
     !.priority = getHigherPriority(existing.priority, item.priority),
     !.essential = item.essential,
     !.isChecked = FALSE]

\* (mutant) the merge leaves isChecked as it was
MergedEntryKeepsChecked(existing, item) ==
  [existing EXCEPT
     !.amount = combineAmounts(existing.amount, item.amount),
     !.priority = getHigherPriority(existing.priority, item.priority),
     !.essential = JsOr(existing.essential, item.essential)]

\* the update both add operations apply to an entry that already exists
MergedEntry(existing, item) ==
  [existing EXCEPT
     !.amount = combineAmounts(existing.amount, item.amount),
     !.priority = getHigherPriority(existing.priority, item.priority),
     !.essential = JsOr(existing.essential, item.essential),
     !.isChecked = FALSE]

\* the entry addToShoppingList creates
NewItemOfAdd(item, id) ==
  [id |-> id,
   name |-> Trim(item.name),
   amount |-> JsOr(item.amount, "1 stk"),
   category |-> JsOr(item.category, "Andre"),
   categoryIcon |-> JsOr(item.categoryIcon, "cart"),
   isChecked |-> FALSE,
   priority |-> JsOr(item.priority, "medium"),
   source |-> JsOr(item.source, "manual"),
   recipeId |-> item.recipeId,
   recipeName |-> item.recipeName,
   essential |-> JsOr(item.essential, JFalse)]

\* the entry addRecipeToShoppingList creates: { id, ...item, isChecked: false }
NewItemOfRecipe(item, id) ==
  [id |-> id,
   name |-> item.name,
   amount |-> item.amount,
   category |-> item.category,
   categoryIcon |-> item.categoryIcon,
   isChecked |-> FALSE,
   priority |-> item.priority,
   source |-> item.source,
   recipeId |-> item.recipeId,
   recipeName |-> item.recipeName,
   essential |-> item.essential]

\* lines 60-92 of addToShoppingList: the list after merge-or-create.
\* id is the identifier a created entry gets.
AddStep(currentList, item, id) ==
  LET existingIndex == findIndexByName(currentList, item.name) IN
  IF existingIndex > 0
  THEN [currentList EXCEPT ![existingIndex] = MergedEntry(currentList[existingIndex], item)]
  ELSE Append(currentList, NewItemOfAdd(item, id))

\* the descriptor addRecipeToShoppingList builds for one missing ingredient
RecipeItem(recipe, ingredient) ==
  LET category == categorizeIngredient(ingredient.name) IN
  [name |-> ingredient.name,
   amount |-> ingredient.amount,
   category |-> category.name,
   categoryIcon |-> category.icon,
   priority |-> IF Truthy(ingredient.essential) THEN "high" ELSE "medium",
   source |-> "recipe",
   recipeId |-> recipe.id,
   recipeName |-> recipe.title,
   essential |-> JsOr(ingredient.essential, JFalse)]

\* one turn of the loop of addRecipeToShoppingList on the state
\* [list, addedCount, nextId]
RecipeLoopStep(acc, recipe, ingredient) ==
  LET item == RecipeItem(recipe, ingredient)
      existingIndex == findIndexByName(acc.list, item.name) IN
  IF existingIndex > 0
  THEN [acc EXCEPT !.list[existingIndex] = MergedEntry(acc.list[existingIndex], item)]
  ELSE [list |-> Append(acc.list, NewItemOfRecipe(item, acc.nextId)),
        addedCount |-> acc.addedCount + 1,
        nextId |-> acc.nextId + 1]

\* the loop of addRecipeToShoppingList over missingIngredients[i..]
RECURSIVE RecipeLoop(_, _, _)
RecipeLoop(acc, recipe, i) ==
  IF i > Len(recipe.missingIngredients) THEN acc
  ELSE RecipeLoop(RecipeLoopStep(acc, recipe, recipe.missingIngredients[i]), recipe, i + 1)

\* ingredient.name of an entry of missingIngredients: undefined when the entry
\* is a bare text and not an object
NameOfMissing(ingredient) ==
  IF "isText" \in DOMAIN ingredient THEN Undefined ELSE ingredient.name

\* addRecipeToShoppingList(recipe) on the list read, for a recipe with missing
\* ingredients: categorizeIngredient calls name.toLowerCase() and throws a
\* TypeError when the name is undefined; the catch rethrows it
addRecipeToShoppingList(recipe, currentList) ==
  IF \E i \in 1..Len(recipe.missingIngredients) :
       NameOfMissing(recipe.missingIngredients[i]) = Undefined
  THEN [ok |-> FALSE, list |-> currentList]
  ELSE [ok |-> TRUE,
        list |-> RecipeLoop([list |-> currentList, addedCount |-> 0, nextId |-> 1],
                            recipe, 1).list]

\* (mutant) the guard without the length test
RecipeHasNoList(recipe) == ~recipe.hasMissing

\* the guard of addRecipeToShoppingList
RecipeHasNothingMissing(recipe) ==
  ~recipe.hasMissing \/ Len(recipe.missingIngredients) = 0

\* (mutant) the toggle checks the entry whatever it was
ToggleStepChecks(currentList, itemIndex) ==
  [currentList EXCEPT ![itemIndex].isChecked = TRUE]

\* currentList[itemIndex].isChecked = !currentList[itemIndex].isChecked
ToggleStep(currentList, itemIndex) ==
  [currentList EXCEPT ![itemIndex].isChecked = ~currentList[itemIndex].isChecked]

RemoveStep(currentList, itemId) ==
  LET keep(item) == item.id # itemId IN SelectSeq(currentList, keep)

ClearCheckedStep(currentList) ==
  LET keep(item) == ~item.isChecked IN SelectSeq(currentList, keep)

\* ------------------------------------------- groupShoppingListByCategory
\* the letters of the names, in the order a collator gives them
Alphabet ==
  << " ", "a", "b", "c", "d", "e", "f", "g", "h", "i", "j", "k", "l", "m", "n", "o",
     "p", "q", "r", "s", "t", "u", "v", "w", "x", "y", "z", "ae", "oe", "aa" >>

LetterRank(c) == CHOOSE i \in 1..Len(Alphabet) : Alphabet[i] = c

\* the two texts letter by letter from position i: -1, 0 or 1
RECURSIVE CompareLetters(_, _, _)
CompareLetters(s, u, i) ==
  IF i > Len(s) /\ i > Len(u) THEN 0
  ELSE IF i > Len(s) THEN -1
  ELSE IF i > Len(u) THEN 1
  ELSE IF LetterRank(s[i]) < LetterRank(u[i]) THEN -1
  ELSE IF LetterRank(s[i]) > LetterRank(u[i]) THEN 1
  ELSE CompareLetters(s, u, i + 1)

\* texts of the same letters: the one with the small letter at the first
\* place where the cases differ goes first
RECURSIVE CompareCase(_, _, _)
CompareCase(s, u, i) ==
  IF i > Len(s) THEN 0
  ELSE IF s[i] = u[i] THEN CompareCase(s, u, i + 1)
  ELSE IF s[i] \in DOMAIN UpperToLower THEN 1 ELSE -1

\* a.localeCompare(b): by letters whatever their case, then by case
localeCompare(s, u) ==
  LET letters == CompareLetters(ToLowerCase(s), ToLowerCase(u), 1) IN
  IF letters # 0 THEN letters ELSE CompareCase(s, u, 1)

\* the comparator of the items of a group; a difference with an `undefined`
\* operand is NaN, which sort takes as 0
CompareItems(a, b) ==
  IF a.isChecked # b.isChecked THEN (IF a.isChecked THEN 1 ELSE -1)
  ELSE IF priorityOrder(b.priority) # priorityOrder(a.priority)
       THEN IF priorityOrder(a.priority) = 0 \/ priorityOrder(b.priority) = 0 THEN 0
            ELSE priorityOrder(b.priority) - priorityOrder(a.priority)
       ELSE localeCompare(a.name, b.name)

\* Array.prototype.sort, which is stable, on the items of a group
RECURSIVE InsertItem(_, _)
InsertItem(sorted, x) ==
  IF sorted = <<>> THEN <<x>>
  ELSE IF CompareItems(sorted[Len(sorted)], x) <= 0 THEN Append(sorted, x)
  ELSE Append(InsertItem(SubSeq(sorted, 1, Len(sorted) - 1), x), sorted[Len(sorted)])

RECURSIVE SortItems(_, _)
SortItems(list, n) ==
  IF n = 0 THEN <<>> ELSE InsertItem(SortItems(list, n - 1), list[n])

UncheckedIn(list) == Cardinality({i \in 1..Len(list) : ~ list[i].isChecked})

\* the sort of the groups: most unchecked items first
RECURSIVE InsertGroup(_, _)
InsertGroup(sorted, g) ==
  IF sorted = <<>> THEN <<g>>
  ELSE IF UncheckedIn(g.items) - UncheckedIn(sorted[Len(sorted)].items) <= 0
       THEN Append(sorted, g)
       ELSE Append(InsertGroup(SubSeq(sorted, 1, Len(sorted) - 1), g), sorted[Len(sorted)])

RECURSIVE SortGroups(_, _)
SortGroups(groups, n) ==
  IF n = 0 THEN <<>> ELSE InsertGroup(SortGroups(groups, n - 1), groups[n])

\* items.forEach(...): the groups in the order their categories first appear
RECURSIVE GroupFrom(_, _, _)
GroupFrom(grouped, list, i) ==
  IF i > Len(list) THEN grouped
  ELSE LET category == JsOr(list[i].category, "Andre")
           at == {g \in 1..Len(grouped) : grouped[g].name = category} IN
       IF at = {}
       THEN GroupFrom(Append(grouped, [name |-> category,
                                       icon |-> JsOr(list[i].categoryIcon, "cart"),
                                       items |-> <<list[i]>>]), list, i + 1)
       ELSE GroupFrom([g \in 1..Len(grouped) |->
                         IF g \in at
                         THEN [grouped[g] EXCEPT !.items = Append(@, list[i])]
                         ELSE grouped[g]], list, i + 1)

groupShoppingListByCategory(list) ==
  LET grouped == GroupFrom(<<>>, list, 1)
      sortedItems == [g \in 1..Len(grouped) |->
                        [grouped[g] EXCEPT !.items = SortItems(@, Len(@))]] IN
  SortGroups(sortedItems, Len(sortedItems))

\* ------------------------------------------------------------------ state
VARIABLES
  stored,   \* the list under SHOPPING_LIST_KEY in the backing store
  pc,       \* per call slot: "idle", or "saving" (awaiting saveShoppingList)
  op,       \* per call slot: the operation in flight, "none" when idle
  arg,      \* per call slot: the argument of the operation in flight
  read,     \* per call slot: the list `await getShoppingList()` gave the operation
  local,    \* per call slot: the list the operation computed (currentList / filteredList)
  added,    \* per call slot: addedCount of an addRecipeToShoppingList in flight
  nextId,   \* the next identifier `shopping-...` the generator hands out
  last,     \* how the most recently completed call ended: "ok" (returned) or "error" (threw)
  overlap,  \* per call slot (history): the name keys of the addToShoppingList calls of
            \* other slots whose save completed while this call was in flight
  calls     \* (history) the number of calls made so far, where the run is bounded

shopVars == <<stored, pc, op, arg, read, local, added, nextId, last, overlap, calls>>

VARIABLES
  config,   \* AI_CONFIG: azure.endpoint, azure.apiKey, azure.deploymentName, enableFallback
  gpc,      \* generateRecipeSuggestions: "idle", or where callAzureOpenAI is awaiting
  gIn,      \* the ingredients argument of the request in flight or last made
  timer,    \* the setTimeout of callAzureOpenAI: "none", "armed", "cleared", "fired"
  gOut,     \* what the last request gave its caller, and (history) why
  gText     \* (history) the completion callAzureOpenAI returned to the request

genVars == <<config, gpc, gIn, timer, gOut, gText>>

VARIABLES
  items,       \* AppProvider state: the food items
  categories,  \* AppProvider state: the categories
  catStore,    \* the list under CATEGORIES_KEY in the backing store
  scheduled,   \* the reminders the notification service holds, by id
  addCall,     \* the addItem awaiting scheduleExpiryNotification
  deleteCall,  \* the deleteItem awaiting cancelNotification
  categoryCall,\* the addCategory / editCategory / removeCategory awaiting the store
  ids          \* how many items, categories and reminders got an id, how many category calls were made

invVars == <<items, categories, catStore, scheduled, addCall, deleteCall, categoryCall, ids>>

VARIABLES
  statsItems,  \* the list the shopping list screen hands to getShoppingStats
  stats        \* what getShoppingStats returned for it, once it has

statsVars == <<statsItems, stats>>

VARIABLES
  itemStore,   \* the list under STORAGE_KEY in the backing store
  loading,     \* AppProvider state: true until loadInitialData has settled
  effectDue,   \* items or loading changed: the save effect is to run after the render
  saveCalls,   \* the lists of the saveItems calls awaiting AsyncStorage.setItem
  startLog     \* (history) how loadItems ended, whether the user changed the items since

startVars == <<itemStore, loading, effectDue, saveCalls, startLog>>

VARIABLES
  screenIn,         \* recipes screen: prioritizedIngredients (its version) and selectedDifficulty
  loadCalls,        \* the loadAIRecipes calls made, each with its request and how it stands
  recipesHeld,      \* recipes screen state aiRecipes: the load its recipes came from
  isLoadingRecipes, \* recipes screen state
  recipeError       \* recipes screen state

screenVars == <<screenIn, loadCalls, recipesHeld, isLoadingRecipes, recipeError>>

vars == <<shopVars, genVars, invVars, statsVars, startVars, screenVars>>

\* ----------------------------------------------------------------- inputs
Milk == <<"M", "i", "l", "k">>
MilkSp == <<"m", "i", "l", "k", " ">>
Ost == <<"O", "s", "t">>

Names == {Milk, MilkSp, Ost}

Descriptor(name, amount, priority, essential) ==
  [name |-> name, amount |-> amount, priority |-> priority, essential |-> essential,
   category |-> Undefined, categoryIcon |-> Undefined, source |-> "manual",
   recipeId |-> Undefined, recipeName |-> Undefined]

Recipe(hasMissing, missingIngredients) ==
  [id |-> "r1", title |-> "Suppe", hasMissing |-> hasMissing,
   missingIngredients |-> missingIngredients]

Ingredient(name, amount, essential) ==
  [name |-> name, amount |-> amount, essential |-> essential]

\* overlapping calls: the descriptors handed to addToShoppingList
AddInputs ==
  { Descriptor(Milk, "1L", Undefined, Undefined),
    Descriptor(MilkSp, "2L", "high", JTrue),
    Descriptor(Ost, Undefined, "low", Undefined) }

\* overlapping calls: the recipes handed to addRecipeToShoppingList
Recipes ==
  { Recipe(FALSE, <<>>),
    Recipe(TRUE, <<>>),
    Recipe(TRUE, <<Ingredient(Ost, Undefined, Undefined), Ingredient(MilkSp, "2L", JTrue)>>) }

\* calls one after the other: the descriptors handed to addToShoppingList
SeqAddInputs ==
  { Descriptor(Milk, "1L", Undefined, Undefined),
    Descriptor(MilkSp, "2L", "high", JTrue),
    Descriptor(Milk, "2L", "low", JFalse),
    Descriptor(Ost, Undefined, "low", Undefined),
    Descriptor(Ost, "1L", "high", JFalse) }

\* calls one after the other: the recipes handed to addRecipeToShoppingList
SeqRecipes ==
  { Recipe(FALSE, <<>>),
    Recipe(TRUE, <<>>),
    Recipe(TRUE, <<Ingredient(MilkSp, "2L", JTrue)>>),
    Recipe(TRUE, <<Ingredient(Ost, "1L", JTrue)>>),
    Recipe(TRUE, <<Ingredient(Ost, Undefined, Undefined), Ingredient(Milk, "1L", Undefined)>>),
    Recipe(TRUE, <<Ingredient(Milk, "1L", Undefined), Ingredient(MilkSp, "2L", JTrue)>>) }

ItemIds == 1..MaxId

\* what `await getShoppingList()` can give: the stored list, or [] when the
\* read or its JSON.parse fails (lines 33-36)
getShoppingList == {stored, <<>>}

AmountLen(amount) == IF amount = Undefined THEN 0 ELSE Len(amount)

AmountsBounded(list) ==
  \A i \in 1..Len(list) : AmountLen(list[i].amount) <= MaxAmountLen

NoArg == [none |-> TRUE]

\* ------------------------------------------------------ recipe orchestrator
\* A text value inside a recipe (a used-ingredient name, a fallback missing
\* ingredient), and what `ing.name || ing` leaves when the entry has no name:
\* the entry object itself, which is not text.
TextValue(name) == [isText |-> TRUE, name |-> name]
ObjectItself == [isText |-> FALSE, name |-> <<>>]

\* an inventory item as the recipes screen hands it over
InventoryItem(name, daysLeft) == [name |-> name, daysLeft |-> daysLeft]

\* the `ingredients` argument: absent, or an array of inventory items
Ingredients(given, list) == [given |-> given, items |-> list]

\* AI_CONFIG.azure.* and AI_CONFIG.enableFallback; "" is an absent value
AiConfig(endpoint, apiKey, deploymentName, enableFallback) ==
  [endpoint |-> endpoint, apiKey |-> apiKey, deploymentName |-> deploymentName,
   enableFallback |-> enableFallback]

\* the values of the source file
ReferenceConfig == AiConfig("https://endpoint/", "key", "gpt-4.1-nano", TRUE)

Configs ==
  { AiConfig(e, k, d, f) : e \in {"", "https://endpoint/"}, k \in {"", "key"},
                           d \in {"", "gpt-4.1-nano"}, f \in BOOLEAN }

\* (mutant) only the endpoint is looked at
ValidateEndpointOnly == config.endpoint # ""

validateAIConfig ==
  ~ (config.endpoint = "" \/ config.apiKey = "" \/ config.deploymentName = "")

isAIEnabled == validateAIConfig

\* an entry of a decoded ingredientsAvailable array: an object with a name
\* (<<>> when it has none), a bare string, or null
AvailableEntry(kind, name) == [kind |-> kind, name |-> name]

\* a decoded array-valued field: whether Array.isArray holds, and the elements
Field(isArray, elements) == [isArray |-> isArray, items |-> elements]
NoField == Field(FALSE, <<>>)

\* an element of the decoded array
Decoded(isNull, id, title, difficulty, time, priority, description, ingredientsAvailable, usedIngredients, missingIngredients, instructions, tips) ==
  [isNull |-> isNull, id |-> id, title |-> title, difficulty |-> difficulty,
   time |-> time, priority |-> priority, description |-> description,
   ingredientsAvailable |-> ingredientsAvailable, usedIngredients |-> usedIngredients,
   missingIngredients |-> missingIngredients, instructions |-> instructions,
   tips |-> tips]

\* an element none of whose fields is present (an empty object, a number)
Blank ==
  Decoded(FALSE, Undefined, Undefined, Undefined, Undefined, Undefined, Undefined,
          NoField, NoField, NoField, NoField, Undefined)

NullElement == [Blank EXCEPT !.isNull = TRUE]

\* ing => ing.name || ing
UsedOfEntry(ing) ==
  IF ing.kind = "string" \/ ing.name # <<>> THEN TextValue(ing.name) ELSE ObjectItself

\* the element callback of recipeArray.map (lines 260-276); Date.now() is left
\* out of the generated id
ParsedRecipe(recipe, index) ==
  [id |-> JsOr(recipe.id, "ai-recipe-" \o ToString(index)),
   title |-> JsOr(recipe.title, "Unavngiven opskrift"),
   difficulty |-> IF recipe.difficulty \in {"easy", "medium", "hard"}
                  THEN recipe.difficulty ELSE "medium",
   time |-> JsOr(recipe.time, "30 min"),
   priority |-> IF recipe.priority \in {"high", "medium", "low"}
                THEN recipe.priority ELSE "medium",
   description |-> JsOr(recipe.description, "Laekker hjemmelavet ret"),
   usedIngredients |->
     IF recipe.ingredientsAvailable.isArray
     THEN [i \in 1..Len(recipe.ingredientsAvailable.items) |->
             UsedOfEntry(recipe.ingredientsAvailable.items[i])]
     ELSE IF recipe.usedIngredients.isArray THEN recipe.usedIngredients.items
     ELSE <<>>,
   missingIngredients |->
     IF recipe.missingIngredients.isArray THEN recipe.missingIngredients.items ELSE <<>>,
   instructions |->
     IF recipe.instructions.isArray THEN recipe.instructions.items
     ELSE <<"Se online opskrift for instruktioner">>,
   tips |-> JsOr(recipe.tips, ""),
   source |-> "AI Generated",
   matchedIngredients |-> <<>>]

\* the callback throws a TypeError: a property is read of null
ElementThrows(recipe) ==
  \/ recipe.isNull
  \/ /\ recipe.ingredientsAvailable.isArray
     /\ \E i \in 1..Len(recipe.ingredientsAvailable.items) :
          recipe.ingredientsAvailable.items[i].kind = "null"

\* The text of a completion, given by what JSON.parse makes of it once the
\* fences are stripped and the text is cut from the first "[" to the last "]"
\* (lines 238-251): nothing (a SyntaxError), an array, or a single value.
Completion(decodes, isArray, elements) ==
  [decodes |-> decodes, isArray |-> isArray, elements |-> elements]

\* parseRecipeResponse(response): the recipes, or the error of its catch
parseRecipeResponse(response) ==
  IF ~ response.decodes \/ \E i \in 1..Len(response.elements) :
                             ElementThrows(response.elements[i])
  THEN [ok |-> FALSE, recipes |-> <<>>]
  ELSE [ok |-> TRUE,
        recipes |-> [i \in 1..Len(response.elements) |->
                       ParsedRecipe(response.elements[i], i - 1)]]

\* array.slice(0, n)
Slice(s, n) == SubSeq(s, 1, IF Len(s) < n THEN Len(s) ELSE n)

NamesOf(list) == [i \in 1..Len(list) |-> TextValue(list[i].name)]

\* getFallbackRecipes(ingredients)
getFallbackRecipes(ingredients) ==
  LET safeIngredients == IF ingredients.given THEN ingredients.items ELSE <<>> IN
  << [id |-> "fallback-1",
      title |-> "Hurtig Groentsagsret",
      difficulty |-> "easy",
      time |-> "20 min",
      priority |-> "high",
      description |-> "En nem og hurtig ret der bruger dine tilgaengelige groentsager.",
      usedIngredients |-> NamesOf(Slice(safeIngredients, 3)),
      missingIngredients |-> <<>>,
      instructions |-> <<"Vask og skaer groentsagerne i mindre stykker",
                         "Varm olie op i en pande ved medium varme",
                         "Tilsaet groentsagerne og sauter i 5-7 minutter",
                         "Krydre efter smag med salt og peber",
                         "Server varmt">>,
      tips |-> "Tilfoej krydderier eller krydderurter for ekstra smag",
      source |-> "Fallback Recipe",
      matchedIngredients |-> Slice(safeIngredients, 3)],
     [id |-> "fallback-2",
      title |-> "Simpel Suppe",
      difficulty |-> "easy",
      time |-> "30 min",
      priority |-> "medium",
      description |-> "En varmende suppe der kan bruge de fleste groentsager.",
      usedIngredients |-> NamesOf(Slice(safeIngredients, 4)),
      missingIngredients |-> <<TextValue(<<"b", "o", "u", "i", "l", "l", "o", "n">>)>>,
      instructions |-> <<"Skaer alle groentsager i tern",
                         "Bring bouillon i kog i en gryde",
                         "Tilsaet groentsagerne og lad koge i 15-20 minutter",
                         "Krydre efter smag",
                         "Server med broed">>,
      tips |-> "Blend suppen for en cremet konsistens",
      source |-> "Fallback Recipe",
      matchedIngredients |-> Slice(safeIngredients, 4)] >>

\* recipe.usedIngredients.some(recipeIng => ...) for one inventory item, from
\* entry i on: "true", "false", or "throw" when toLowerCase is called on an
\* entry that is not text
RECURSIVE SomeFrom(_, _, _)
SomeFrom(usedIngredients, userIng, i) ==
  IF i > Len(usedIngredients) THEN "false"
  ELSE IF ~ usedIngredients[i].isText THEN "throw"
  ELSE IF \/ Includes(ToLowerCase(usedIngredients[i].name), ToLowerCase(userIng.name))
          \/ Includes(ToLowerCase(userIng.name), ToLowerCase(usedIngredients[i].name))
       THEN "true"
  ELSE SomeFrom(usedIngredients, userIng, i + 1)

\* (mutant) the score divides by the number of used ingredients itself
MatchedRecipeDividesByLength(recipe, userIngredients) ==
  LET Matches(userIng) == SomeFrom(recipe.usedIngredients, userIng, 1) = "true"
      matchedIngredients == SelectSeq(userIngredients, Matches)
  IN [id |-> recipe.id, title |-> recipe.title, difficulty |-> recipe.difficulty,
      time |-> recipe.time, priority |-> recipe.priority,
      description |-> recipe.description,
      usedIngredients |-> recipe.usedIngredients,
      missingIngredients |-> recipe.missingIngredients,
      instructions |-> recipe.instructions, tips |-> recipe.tips,
      source |-> recipe.source,
      matchedIngredients |-> matchedIngredients,
      matchScore |-> [num |-> Len(matchedIngredients),
                      den |-> Len(recipe.usedIngredients)]]

\* the callback of recipes.map in matchRecipesWithIngredients; the score is
\* the fraction num / den
MatchedRecipe(recipe, userIngredients) ==
  LET Matches(userIng) == SomeFrom(recipe.usedIngredients, userIng, 1) = "true"
      matchedIngredients == SelectSeq(userIngredients, Matches)
      longer == IF Len(recipe.usedIngredients) > 1 THEN Len(recipe.usedIngredients) ELSE 1
  IN [id |-> recipe.id, title |-> recipe.title, difficulty |-> recipe.difficulty,
      time |-> recipe.time, priority |-> recipe.priority,
      description |-> recipe.description,
      usedIngredients |-> recipe.usedIngredients,
      missingIngredients |-> recipe.missingIngredients,
      instructions |-> recipe.instructions, tips |-> recipe.tips,
      source |-> recipe.source,
      matchedIngredients |-> matchedIngredients,
      matchScore |-> [num |-> Len(matchedIngredients), den |-> longer]]

\* matchRecipesWithIngredients(recipes, userIngredients): the annotated
\* recipes, or the TypeError of a used ingredient that is not text
matchRecipesWithIngredients(recipes, userIngredients) ==
  IF \E r \in 1..Len(recipes), u \in 1..Len(userIngredients) :
       SomeFrom(recipes[r].usedIngredients, userIngredients[u], 1) = "throw"
  THEN [ok |-> FALSE, recipes |-> <<>>]
  ELSE [ok |-> TRUE,
        recipes |-> [r \in 1..Len(recipes) |-> MatchedRecipe(recipes[r], userIngredients)]]

\* what the caller of generateRecipeSuggestions gets; cause (history) is the
\* step that decided it
Outcome(status, recipes, message, cause) ==
  [status |-> status, recipes |-> recipes, message |-> message, cause |-> cause]

NoOutcome == Outcome("none", <<>>, "", "none")

\* the text `await callAzureOpenAI(prompt)` gave, if it gave one
Returned(response) == [received |-> TRUE, response |-> response]
NoText == [received |-> FALSE, response |-> Completion(FALSE, FALSE, <<>>)]

\* the inventories handed to generateRecipeSuggestions
GenIngredients ==
  { Ingredients(FALSE, <<>>),
    Ingredients(TRUE, <<>>),
    Ingredients(TRUE, <<InventoryItem(Milk, 1)>>),
    Ingredients(TRUE, <<InventoryItem(Ost, 2), InventoryItem(Milk, 5)>>),
    Ingredients(TRUE, <<InventoryItem(Ost, 0), InventoryItem(Milk, 1),
                        InventoryItem(MilkSp, 3), InventoryItem(<<"ae", "g">>, 9)>>) }

Ostemad ==
  Decoded(FALSE, "recipe-1", "Ostemad", "easy", "10 min", "high", "Broed med ost",
          Field(TRUE, <<AvailableEntry("object", <<"o", "s", "t">>)>>), NoField,
          Field(TRUE, <<Ingredient(<<"b", "r", "oe", "d">>, "1 stk", JTrue)>>),
          Field(TRUE, <<"Smoer broedet", "Laeg osten paa">>), "Rist broedet")

\* an element whose one available ingredient has no name
Nameless ==
  [Blank EXCEPT !.ingredientsAvailable = Field(TRUE, <<AvailableEntry("object", <<>>)>>)]

\* an element whose available ingredients hold a null entry
WithNullEntry ==
  [Blank EXCEPT !.title = "Suppe",
                !.ingredientsAvailable = Field(TRUE, <<AvailableEntry("null", <<>>)>>)]

\* an element whose instructions are the empty array
WithoutSteps == [Ostemad EXCEPT !.instructions = Field(TRUE, <<>>)]

\* an element whose one available ingredient is the text "milk"
Milkshake ==
  [Blank EXCEPT !.title = "Milkshake",
                !.ingredientsAvailable =
                    Field(TRUE, <<AvailableEntry("string", <<"m", "i", "l", "k">>)>>)]

\* the completions the deployment can answer with
Completions ==
  { Completion(FALSE, FALSE, <<>>),
    Completion(TRUE, TRUE, <<>>),
    Completion(TRUE, TRUE, <<Ostemad, Blank>>),
    Completion(TRUE, TRUE, <<Blank, Ostemad>>),
    Completion(TRUE, TRUE, <<Ostemad, WithNullEntry>>),
    Completion(TRUE, TRUE, <<WithoutSteps>>),
    Completion(TRUE, FALSE, <<Ostemad>>),
    Completion(TRUE, TRUE, <<Nameless>>),
    Completion(TRUE, TRUE, <<Milkshake>>),
    Completion(TRUE, FALSE, <<NullElement>>) }

\* what `await response.json()` and data.choices[0].message.content give: the
\* body is not JSON, it has no choices, or it carries a completion
Body(isJson, hasChoices, content) ==
  [isJson |-> isJson, hasChoices |-> hasChoices, content |-> content]

Bodies ==
  { Body(FALSE, FALSE, Completion(FALSE, FALSE, <<>>)),
    Body(TRUE, FALSE, Completion(FALSE, FALSE, <<>>)) }
    \cup { Body(TRUE, TRUE, c) : c \in Completions }

\* ------------------------------------------------------------ recipes screen
\* the mock recipes of recipesSuggestions (time, description and searchQuery are
\* left out)
MockRecipe(id, title, difficulty, priority, ingredients) ==
  [id |-> id, title |-> title, difficulty |-> difficulty, priority |-> priority,
   ingredients |-> ingredients, matchedIngredients |-> <<>>]

MockRecipes ==
  << MockRecipe(1, "Hurtig Pasta med Groentsager", "easy", "high",
                <<<<"p", "a", "s", "t", "a">>,
                  <<"g", "r", "oe", "n", "t", "s", "a", "g", "e", "r">>,
                  <<"o", "l", "i", "e">>,
                  <<"s", "a", "l", "t">>>>),
     MockRecipe(2, "Groentsags Wok", "easy", "high",
                <<<<"g", "r", "oe", "n", "t", "s", "a", "g", "e", "r">>,
                  <<"o", "l", "i", "e">>,
                  <<"s", "o", "j", "a", " ", "s", "a", "u", "c", "e">>,
                  <<"i", "n", "g", "e", "f", "ae", "r">>>>),
     MockRecipe(3, "Smoothie med Frugt", "easy", "medium",
                <<<<"f", "r", "u", "g", "t">>,
                  <<"y", "o", "g", "h", "u", "r", "t">>,
                  <<"m", "ae", "l", "k">>,
                  <<"h", "o", "n", "n", "i", "n", "g">>>>),
     MockRecipe(4, "Broed med Paaskag", "easy", "medium",
                <<<<"b", "r", "oe", "d">>,
                  <<"p", "aa", "s", "k", "a", "g">>,
                  <<"s", "m", "oe", "r">>,
                  <<"s", "a", "l", "t">>>>),
     MockRecipe(5, "Omelet med Rester", "medium", "high",
                <<<<"ae", "g">>,
                  <<"m", "ae", "l", "k">>,
                  <<"g", "r", "oe", "n", "t", "s", "a", "g", "e", "r">>,
                  <<"o", "s", "t">>>>),
     MockRecipe(6, "Groentsagssuppe", "medium", "high",
                <<<<"g", "r", "oe", "n", "t", "s", "a", "g", "e", "r">>,
                  <<"b", "o", "u", "i", "l", "l", "o", "n">>,
                  <<"l", "oe", "g">>,
                  <<"k", "r", "y", "d", "d", "e", "r", "i", "e", "r">>>>),
     MockRecipe(7, "Bananbroed", "medium", "medium",
                <<<<"b", "a", "n", "a", "n">>,
                  <<"m", "e", "l">>,
                  <<"s", "u", "k", "k", "e", "r">>,
                  <<"ae", "g">>,
                  <<"s", "m", "oe", "r">>>>),
     MockRecipe(8, "Stegt Ris med Rester", "easy", "high",
                <<<<"r", "i", "s">>,
                  <<"g", "r", "oe", "n", "t", "s", "a", "g", "e", "r">>,
                  <<"ae", "g">>,
                  <<"s", "o", "j", "a", " ", "s", "a", "u", "c", "e">>>>),
     MockRecipe(9, "Gratin med Kartofler", "medium", "medium",
                <<<<"k", "a", "r", "t", "o", "f", "f", "e", "l">>,
                  <<"f", "l", "oe", "d", "e">>,
                  <<"o", "s", "t">>,
                  <<"s", "m", "oe", "r">>>>),
     MockRecipe(10, "Pandekager", "easy", "medium",
                <<<<"m", "e", "l">>,
                  <<"m", "ae", "l", "k">>,
                  <<"ae", "g">>,
                  <<"s", "u", "k", "k", "e", "r">>>>) >>

\* the kinds an ingredient word stands for: item names holding one of the
\* words count as that ingredient
KindWords ==
  << [ingredient |-> <<"g", "r", "oe", "n", "t", "s", "a", "g", "e", "r">>,
      words |-> {<<"g", "u", "l", "e", "r", "o", "d">>,
                <<"l", "oe", "g">>,
                <<"k", "a", "r", "t", "o", "f", "f", "e", "l">>,
                <<"t", "o", "m", "a", "t">>,
                <<"s", "a", "l", "a", "t">>,
                <<"p", "e", "b", "e", "r", "f", "r", "u", "g", "t">>,
                <<"b", "r", "o", "c", "c", "o", "l", "i">>,
                <<"s", "p", "i", "n", "a", "t">>,
                <<"c", "o", "u", "r", "g", "e", "t", "t", "e">>,
                <<"a", "u", "b", "e", "r", "g", "i", "n", "e">>}],
     [ingredient |-> <<"f", "r", "u", "g", "t">>,
      words |-> {<<"ae", "b", "l", "e">>,
                <<"b", "a", "n", "a", "n">>,
                <<"a", "p", "p", "e", "l", "s", "i", "n">>,
                <<"c", "i", "t", "r", "o", "n">>,
                <<"p", "ae", "r", "e">>,
                <<"j", "o", "r", "d", "b", "ae", "r">>,
                <<"b", "l", "aa", "b", "ae", "r">>,
                <<"k", "i", "w", "i">>,
                <<"m", "a", "n", "g", "o">>,
                <<"a", "n", "a", "n", "a", "s">>}],
     [ingredient |-> <<"m", "ae", "l", "k">>,
      words |-> {<<"m", "ae", "l", "k">>,
                <<"y", "o", "g", "h", "u", "r", "t">>,
                <<"f", "l", "oe", "d", "e">>,
                <<"k", "ae", "r", "n", "e", "m", "ae", "l", "k">>,
                <<"s", "k", "u", "m", "m", "e", "t", "m", "ae", "l", "k">>}],
     [ingredient |-> <<"o", "s", "t">>,
      words |-> {<<"o", "s", "t">>}],
     [ingredient |-> <<"ae", "g">>,
      words |-> {<<"ae", "g">>}],
     [ingredient |-> <<"b", "r", "oe", "d">>,
      words |-> {<<"b", "r", "oe", "d">>,
                <<"t", "o", "a", "s", "t">>,
                <<"b", "a", "g", "e", "l">>,
                <<"b", "o", "l", "l", "e">>}],
     [ingredient |-> <<"p", "a", "s", "t", "a">>,
      words |-> {<<"p", "a", "s", "t", "a">>,
                <<"s", "p", "a", "g", "h", "e", "t", "t", "i">>,
                <<"m", "a", "k", "a", "r", "o", "n", "i">>,
                <<"p", "e", "n", "n", "e">>,
                <<"f", "u", "s", "i", "l", "l", "i">>}],
     [ingredient |-> <<"r", "i", "s">>,
      words |-> {<<"r", "i", "s">>}],
     [ingredient |-> <<"m", "e", "l">>,
      words |-> {<<"m", "e", "l">>,
                <<"h", "v", "e", "d", "e", "m", "e", "l">>,
                <<"r", "u", "g", "m", "e", "l">>}],
     [ingredient |-> <<"k", "a", "r", "t", "o", "f", "f", "e", "l">>,
      words |-> {<<"k", "a", "r", "t", "o", "f", "f", "e", "l">>,
                <<"k", "a", "r", "t", "o", "f", "l", "e", "r">>}],
     [ingredient |-> <<"l", "oe", "g">>,
      words |-> {<<"l", "oe", "g">>,
                <<"r", "oe", "d", "l", "oe", "g">>,
                <<"h", "v", "i", "d", "l", "oe", "g">>}],
     [ingredient |-> <<"t", "o", "m", "a", "t">>,
      words |-> {<<"t", "o", "m", "a", "t">>,
                <<"t", "o", "m", "a", "t", "e", "r">>,
                <<"c", "h", "e", "r", "r", "y", "t", "o", "m", "a", "t", "e", "r">>}] >>

\* the special cases of the find callback: the item name holds a word of the
\* ingredient's kind
KindMatches(ingredient, itemName) ==
  \E k \in 1..Len(KindWords) :
    /\ KindWords[k].ingredient = ingredient
    /\ \E w \in KindWords[k].words : Includes(itemName, w)

\* the find callback: does the inventory item count as the ingredient
ItemMatches(item, ingredient) ==
  LET itemName == ToLowerCase(item.name)
      ingredientLower == ToLowerCase(ingredient) IN
  \/ Includes(itemName, ingredientLower)
  \/ Includes(ingredientLower, itemName)
  \/ KindMatches(ingredient, itemName)

\* prioritizedIngredients.find(...): the index of the first item, 0 for none
RECURSIVE FindItem(_, _, _)
FindItem(inventory, ingredient, i) ==
  IF i > Len(inventory) THEN 0
  ELSE IF ItemMatches(inventory[i], ingredient) THEN i
  ELSE FindItem(inventory, ingredient, i + 1)

\* recipe.ingredients.forEach(...): the found inventory, in ingredient order
RECURSIVE MatchedFrom(_, _, _)
MatchedFrom(ingredients, inventory, i) ==
  IF i > Len(ingredients) THEN <<>>
  ELSE LET found == FindItem(inventory, ingredients[i], 1)
           rest == MatchedFrom(ingredients, inventory, i + 1) IN
       IF found > 0 THEN <<inventory[found]>> \o rest ELSE rest

UrgencyWeight(item) ==
  IF item.daysLeft <= 2 THEN 3 ELSE IF item.daysLeft <= 5 THEN 2 ELSE 1

\* matched.forEach(item => priorityScore += ...)
RECURSIVE UrgencySum(_, _)
UrgencySum(matched, i) ==
  IF i > Len(matched) THEN 0 ELSE UrgencyWeight(matched[i]) + UrgencySum(matched, i + 1)

\* the map callback of recipesSuggestions
ScoredRecipe(recipe, prioritizedIngredients) ==
  LET matched == MatchedFrom(recipe.ingredients, prioritizedIngredients, 1) IN
  [id |-> recipe.id, title |-> recipe.title, difficulty |-> recipe.difficulty,
   priority |-> recipe.priority, ingredients |-> recipe.ingredients,
   matchedIngredients |-> matched,
   matchScore |-> Len(matched),
   priorityScore |-> Len(matched) + UrgencySum(matched, 1),
   canMake |-> Len(matched) >= (Len(recipe.ingredients) + 1) \div 2]

\* the sort comparator: negative when a goes before b
CompareRecipes(a, b) ==
  IF b.priorityScore # a.priorityScore THEN b.priorityScore - a.priorityScore
  ELSE b.matchScore - a.matchScore

\* Array.prototype.sort, which is stable: x goes after every element that does
\* not go after it
RECURSIVE InsertSorted(_, _)
InsertSorted(sorted, x) ==
  IF sorted = <<>> THEN <<x>>
  ELSE IF CompareRecipes(Head(sorted), x) <= 0
       THEN <<Head(sorted)>> \o InsertSorted(Tail(sorted), x)
       ELSE <<x>> \o sorted

RECURSIVE SortRecipes(_, _)
SortRecipes(recipes, n) ==
  IF n = 0 THEN <<>> ELSE InsertSorted(SortRecipes(recipes, n - 1), recipes[n])

\* the mock branch of recipesSuggestions: map, filter, sort
MockSuggestions(prioritizedIngredients) ==
  LET scored == [r \in 1..Len(MockRecipes) |->
                   ScoredRecipe(MockRecipes[r], prioritizedIngredients)]
      HasMatch(recipe) == recipe.matchScore > 0
      kept == SelectSeq(scored, HasMatch) IN
  SortRecipes(kept, Len(kept))

\* recipesSuggestions: the list the screen shows for the inventory and the
\* aiRecipes it holds
recipesSuggestions(prioritizedIngredients, aiRecipes) ==
  IF Len(prioritizedIngredients) = 0 THEN <<>>
  ELSE IF Len(aiRecipes) > 0 THEN aiRecipes
  ELSE MockSuggestions(prioritizedIngredients)

\* what the effect of the recipes screen depends on: the inventory (0: no
\* item with qty > 0, else the version of the list) and selectedDifficulty
ScreenInput(inventory, difficulty) == [inventory |-> inventory, difficulty |-> difficulty]

\* ---------------------------------------------------- inventory, categories
\* a category record; the icon is a word
Category(id, name, icon) == [id |-> id, name |-> name, icon |-> icon]

DEFAULT_CATEGORIES ==
  << Category("fridge", "Koeleskab", "snowflake"), Category("freezer", "Fryser", "ice") >>

\* a food item: name, qty, expiryDate, barcode and imageUrl are not modelled;
\* notificationId is Undefined when no reminder was scheduled
FoodItem(id, categoryId, notificationId) ==
  [id |-> id, categoryId |-> categoryId, notificationId |-> notificationId]

CategoryIdsOf(list) == {list[i].id : i \in 1..Len(list)}

\* what `await loadCategories()` can give: the stored list, or the defaults
\* when the read or its JSON.parse fails (lines 27-30)
loadCategories == {catStore, DEFAULT_CATEGORIES}

\* addCategory of the storage service: the list it saves
addCategoryService(loaded, category, id) ==
  Append(loaded, Category(id, category.name, JsOr(category.icon, "folder")))

\* updateCategory(categoryId, updates): the list it saves
updateCategory(loaded, categoryId, updates) ==
  [i \in 1..Len(loaded) |->
     IF loaded[i].id = categoryId
     THEN Category(loaded[i].id, updates.name, updates.icon)
     ELSE loaded[i]]

\* deleteCategory(categoryId): the list it saves
deleteCategory(loaded, categoryId) ==
  LET Kept(cat) == cat.id # categoryId IN SelectSeq(loaded, Kept)

\* the items.map of removeCategory
ReassignItems(list, categoryId) ==
  [i \in 1..Len(list) |->
     IF list[i].categoryId = categoryId
     THEN [list[i] EXCEPT !.categoryId = "pantry"]
     ELSE list[i]]

\* prev.filter(x => x.id !== id)
WithoutItem(list, id) ==
  LET Kept(x) == x.id # id IN SelectSeq(list, Kept)

\* items.find(x => x.id === id): the index, 0 for none
RECURSIVE FindFoodItem(_, _, _)
FindFoodItem(list, id, i) ==
  IF i > Len(list) THEN 0
  ELSE IF list[i].id = id THEN i
  ELSE FindFoodItem(list, id, i + 1)

\* isDefaultCategory of the categories screen
isDefaultCategory(categoryId) == categoryId \in {"fridge", "freezer"}

\* the category handler in flight, if any: what its storage call gave, and the
\* items its closure holds
CategoryCall(name, categoryId, ok, updatedCategories, closureItems) ==
  [name |-> name, categoryId |-> categoryId, ok |-> ok,
   updatedCategories |-> updatedCategories, closureItems |-> closureItems]

NoCategoryCall == CategoryCall("none", "", FALSE, <<>>, <<>>)

\* the deleteItem in flight, if any
DeleteCall(active, id, notificationId) ==
  [active |-> active, id |-> id, notificationId |-> notificationId]

NoDeleteCall == DeleteCall(FALSE, "", Undefined)

\* the addItem in flight, if any
AddCall(active, item) == [active |-> active, item |-> item]

NoAddCall == AddCall(FALSE, FoodItem("", "", Undefined))

\* the names typed into the category modals
CategoryNames == {"Skab"}

\* ------------------------------------------------------------------- init
ShopInit ==
  /\ stored = <<>>
  /\ pc = [p \in Procs |-> "idle"]
  /\ op = [p \in Procs |-> "none"]
  /\ arg = [p \in Procs |-> NoArg]
  /\ read = [p \in Procs |-> <<>>]
  /\ local = [p \in Procs |-> <<>>]
  /\ added = [p \in Procs |-> 0]
  /\ nextId = 1
  /\ last = "ok"
  /\ overlap = [p \in Procs |-> {}]
  /\ calls = 0

\* ------------------------------------------------------- getShoppingStats
\* JavaScript numbers are IEEE 754 doubles. A positive double is held as its
\* 53 significand bits, most significant first, and a scale: its value is the
\* integer the bits spell, divided by 2^scale. Zero has no bits.
Double(bits, scale) == [bits |-> bits, scale |-> scale]
DoubleZero == Double(<<>>, 0)

\* the integer a bit sequence spells
RECURSIVE ValueOf(_)
ValueOf(bits) ==
  IF bits = <<>> THEN 0
  ELSE 2 * ValueOf(SubSeq(bits, 1, Len(bits) - 1)) + bits[Len(bits)]

\* the bit sequence of a positive integer, without leading zeros
RECURSIVE BitsOf(_)
BitsOf(number) ==
  IF number = 0 THEN <<>> ELSE BitsOf(number \div 2) \o <<number % 2>>

\* bits plus one at its last place; a carry out of the first place is kept
RECURSIVE Increment(_, _)
Increment(bits, i) ==
  IF i = 0 THEN <<1>> \o bits
  ELSE IF bits[i] = 0 THEN [bits EXCEPT ![i] = 1]
  ELSE Increment([bits EXCEPT ![i] = 0], i - 1)

\* round to nearest, ties to even: an exact value of more than 53 bits (and
\* `sticky` when it has non-zero bits below those given) as a double
RoundToDouble(bits, scale, sticky) ==
  IF Len(bits) <= 53
  THEN Double(bits \o [i \in 1..(53 - Len(bits)) |-> 0], scale + (53 - Len(bits)))
  ELSE LET kept == SubSeq(bits, 1, 53)
           dropped == Len(bits) - 53
           below == sticky \/ \E i \in 55..Len(bits) : bits[i] = 1
           up == bits[54] = 1 /\ (below \/ kept[53] = 1)
           rounded == IF up THEN Increment(kept, 53) ELSE kept IN
       IF Len(rounded) = 54
       THEN Double(SubSeq(rounded, 1, 53), scale - dropped - 1)
       ELSE Double(rounded, scale - dropped)

\* long division: the next `count` quotient bits, for a remainder < 2 * divisor
RECURSIVE QuotientBits(_, _, _)
QuotientBits(remainder, divisor, count) ==
  IF count = 0 THEN <<>>
  ELSE LET bit == IF remainder >= divisor THEN 1 ELSE 0 IN
       <<bit>> \o QuotientBits(2 * (remainder - bit * divisor), divisor, count - 1)

\* the remainder the long division is left with after `count` quotient bits
RECURSIVE RemainderAfter(_, _, _)
RemainderAfter(remainder, divisor, count) ==
  IF count = 0 THEN remainder
  ELSE LET bit == IF remainder >= divisor THEN 1 ELSE 0 IN
       RemainderAfter(2 * (remainder - bit * divisor), divisor, count - 1)

\* how many times dividend > 0 is doubled before it reaches divisor
RECURSIVE ShiftsBelow(_, _)
ShiftsBelow(dividend, divisor) ==
  IF dividend >= divisor THEN 0 ELSE 1 + ShiftsBelow(2 * dividend, divisor)

RECURSIVE TwoTo(_)
TwoTo(power) == IF power = 0 THEN 1 ELSE 2 * TwoTo(power - 1)

\* dividend / divisor in doubles, for integers 0 <= dividend <= divisor > 0
DoubleDivide(dividend, divisor) ==
  IF dividend = 0 THEN DoubleZero
  ELSE LET shifts == ShiftsBelow(dividend, divisor)
           first == dividend * TwoTo(shifts) IN
       RoundToDouble(QuotientBits(first, divisor, 54), shifts + 53,
                     RemainderAfter(first, divisor, 54) # 0)

\* the `width` low bits of a number, most significant first
FixedBits(number, width) == [i \in 1..width |-> (number \div TwoTo(width - i)) % 2]

\* the exact product of the integer 53 bits spell and a small factor, by long
\* multiplication over pieces of 17, 18 and 18 bits
TimesBits(bits, factor) ==
  LET low == ValueOf(SubSeq(bits, 36, 53)) * factor
      mid == ValueOf(SubSeq(bits, 18, 35)) * factor + low \div TwoTo(18)
      high == ValueOf(SubSeq(bits, 1, 17)) * factor + mid \div TwoTo(18) IN
  BitsOf(high) \o FixedBits(mid % TwoTo(18), 18) \o FixedBits(low % TwoTo(18), 18)

\* x * factor in doubles, for a small integer factor
DoubleTimes(x, factor) ==
  IF x = DoubleZero THEN DoubleZero
  ELSE RoundToDouble(TimesBits(x.bits, factor), x.scale, FALSE)

\* Math.round(x) for a double 0 <= x < 2^30: the nearest integer, the larger
\* of the two when x is halfway
MathRound(x) ==
  IF x = DoubleZero THEN 0
  ELSE LET whole == 53 - x.scale IN
       IF whole < 0 THEN 0
       ELSE ValueOf(SubSeq(x.bits, 1, whole)) + x.bits[whole + 1]

\* an entry as getShoppingStats reads it
StatsEntry(isChecked, essential) == [isChecked |-> isChecked, essential |-> essential]

\* item => item.essential && !item.isChecked
CountsAsEssential(item) == Truthy(item.essential) /\ ~ item.isChecked

getShoppingStats(list) ==
  LET isChecked(item) == item.isChecked
      total == Len(list)
      checked == Len(SelectSeq(list, isChecked))
      unchecked == total - checked
      essential == Len(SelectSeq(list, CountsAsEssential)) IN
  [ total |-> total,
    checked |-> checked,
    unchecked |-> unchecked,
    essential |-> essential,
    progress |-> IF total > 0 THEN MathRound(DoubleTimes(DoubleDivide(checked, total), 100))
                 ELSE 0 ]

\* what the shopping list screen holds of the last getShoppingStats(shoppingList)
StatsResult(given, value) == [given |-> given, value |-> value]
NoStats == StatsResult(FALSE, getShoppingStats(<<>>))

\* the lists handed to getShoppingStats: `checked` checked entries before or
\* after the unchecked ones, the essential field true, false or absent in turn
Essentials == <<JTrue, JFalse, Undefined>>
CheckedFirst(total, checked) ==
  [j \in 1..total |-> StatsEntry(j <= checked, Essentials[(j % 3) + 1])]
CheckedLast(total, checked) ==
  [j \in 1..total |-> StatsEntry(j > total - checked, Essentials[(j % 3) + 1])]
StatsLists ==
  UNION { UNION { {CheckedFirst(total, checked), CheckedLast(total, checked)} :
                    checked \in 0..total } : total \in 0..MaxStatsLen }

\* the app context after loadInitialData on a fresh install
InvInit ==
  /\ items = <<>>
  /\ categories = DEFAULT_CATEGORIES
  /\ catStore = DEFAULT_CATEGORIES
  /\ scheduled = {}
  /\ addCall = NoAddCall
  /\ deleteCall = NoDeleteCall
  /\ categoryCall = NoCategoryCall
  /\ ids = [items |-> 0, categories |-> 0, reminders |-> 0, calls |-> 0]

\* no statistics are asked for
StatsRest == statsItems = <<>> /\ stats = NoStats

\* the provider has loaded an empty inventory and nothing is being saved
StartRest ==
  /\ itemStore = <<>>
  /\ loading = FALSE
  /\ effectDue = FALSE
  /\ saveCalls = <<>>
  /\ startLog = [load |-> "ok", mutated |-> FALSE]

\* the recipes screen is not mounted
ScreenRest ==
  /\ screenIn = ScreenInput(0, "all")
  /\ loadCalls = <<>>
  /\ recipesHeld = 0
  /\ isLoadingRecipes = FALSE
  /\ recipeError = "null"

\* the list service alone: the orchestrator rests, under the source's values
Init ==
  /\ ShopInit
  /\ InvInit
  /\ StartRest
  /\ ScreenRest
  /\ StatsRest
  /\ config = ReferenceConfig
  /\ gpc = "idle"
  /\ gIn = Ingredients(FALSE, <<>>)
  /\ timer = "none"
  /\ gOut = NoOutcome
  /\ gText = NoText

\* the call reaches `await saveShoppingList(list)`
AwaitSave(p, name, a, currentList, list, addedCount) ==
  /\ pc' = [pc EXCEPT ![p] = "saving"]
  /\ op' = [op EXCEPT ![p] = name]
  /\ arg' = [arg EXCEPT ![p] = a]
  /\ read' = [read EXCEPT ![p] = currentList]
  /\ local' = [local EXCEPT ![p] = list]
  /\ added' = [added EXCEPT ![p] = addedCount]
  /\ UNCHANGED <<stored, last, overlap>>

\* the call ends without having reached a save
EndsAtOnce(status) ==
  /\ last' = status
  /\ UNCHANGED <<stored, pc, op, arg, read, local, added, nextId, overlap>>

\* ---------------------------------------------------------------- actions
\* addToShoppingList(item) up to its `await saveShoppingList`
Add(p, item, currentList) ==
  /\ pc[p] = "idle"
  /\ LET newList == AddStep(currentList, item, nextId)
         created == Len(newList) - Len(currentList) IN
     /\ nextId + created <= MaxId + 1
     /\ AmountsBounded(newList)
     /\ AwaitSave(p, "add", item, currentList, newList, 0)
     /\ nextId' = nextId + created

\* addRecipeToShoppingList(recipe) with nothing missing: throws before any read
AddRecipeRejected(p, recipe) ==
  /\ pc[p] = "idle"
  /\ RecipeHasNothingMissing(recipe)
  /\ EndsAtOnce("error")

\* addRecipeToShoppingList(recipe) up to its `await saveShoppingList`
AddRecipe(p, recipe, currentList) ==
  /\ pc[p] = "idle"
  /\ ~RecipeHasNothingMissing(recipe)
  /\ LET done == RecipeLoop([list |-> currentList, addedCount |-> 0, nextId |-> nextId],
                            recipe, 1) IN
     /\ done.nextId <= MaxId + 1
     /\ AmountsBounded(done.list)
     /\ AwaitSave(p, "recipe", recipe, currentList, done.list, done.addedCount)
     /\ nextId' = done.nextId

\* toggleShoppingItem(itemId) when the id is in the list read
Toggle(p, itemId, currentList) ==
  /\ pc[p] = "idle"
  /\ findIndexById(currentList, itemId) > 0
  /\ AwaitSave(p, "toggle", [itemId |-> itemId], currentList,
               ToggleStep(currentList, findIndexById(currentList, itemId)), 0)
  /\ UNCHANGED nextId

\* toggleShoppingItem(itemId) when it is not: returns the list read, saves nothing
ToggleAbsent(p, itemId, currentList) ==
  /\ pc[p] = "idle"
  /\ findIndexById(currentList, itemId) = 0
  /\ EndsAtOnce("ok")

\* removeFromShoppingList(itemId) up to its save
Remove(p, itemId, currentList) ==
  /\ pc[p] = "idle"
  /\ AwaitSave(p, "remove", [itemId |-> itemId], currentList,
               RemoveStep(currentList, itemId), 0)
  /\ UNCHANGED nextId

\* clearCheckedItems() up to its save
ClearChecked(p, currentList) ==
  /\ pc[p] = "idle"
  /\ AwaitSave(p, "clearChecked", NoArg, currentList, ClearCheckedStep(currentList), 0)
  /\ UNCHANGED nextId

\* clearShoppingList() up to its save: reads nothing
ClearAll(p) ==
  /\ pc[p] = "idle"
  /\ AwaitSave(p, "clearAll", NoArg, <<>>, <<>>, 0)
  /\ UNCHANGED nextId

\* the call returns (status "ok") or throws (status "error") to its caller
Return(p, status) ==
  /\ last' = status
  /\ pc' = [pc EXCEPT ![p] = "idle"]
  /\ op' = [op EXCEPT ![p] = "none"]
  /\ arg' = [arg EXCEPT ![p] = NoArg]
  /\ read' = [read EXCEPT ![p] = <<>>]
  /\ local' = [local EXCEPT ![p] = <<>>]
  /\ added' = [added EXCEPT ![p] = 0]
  /\ UNCHANGED nextId

\* history: the calls in flight learn that p's addToShoppingList has saved
NoteSaved(p) ==
  overlap' = [q \in Procs |->
                IF q = p THEN {}
                ELSE IF pc[q] = "saving" /\ op[p] = "add"
                     THEN overlap[q] \cup {NameKey(arg[p].name)}
                     ELSE overlap[q]]

\* (mutant) the save keeps the entries other calls stored meanwhile
SaveOkKeepsOthers(p) ==
  /\ pc[p] = "saving"
  /\ LET others(entry) == /\ findIndexByName(read[p], entry.name) = 0
                          /\ findIndexByName(local[p], entry.name) = 0 IN
     stored' = local[p] \o SelectSeq(stored, others)
  /\ Return(p, "ok")
  /\ NoteSaved(p)

\* saveShoppingList succeeds: AsyncStorage.setItem replaces the stored list
SaveOk(p) ==
  /\ pc[p] = "saving"
  /\ stored' = local[p]
  /\ Return(p, "ok")
  /\ NoteSaved(p)

\* saveShoppingList fails: it logs and returns false, which no caller reads
SaveFail(p) ==
  /\ pc[p] = "saving"
  /\ Return(p, "ok")
  /\ overlap' = [overlap EXCEPT ![p] = {}]
  /\ UNCHANGED stored

\* a call is made, of the MaxCalls the run allows
Called == calls < MaxCalls /\ calls' = calls + 1

\* two call slots: the handlers overlap at their awaits
Next ==
  /\ UNCHANGED <<genVars, invVars, statsVars, startVars, screenVars>>
  /\ \E p \in Procs :
       \/ \E item \in AddInputs, currentList \in getShoppingList :
            Add(p, item, currentList) /\ Called
       \/ \E recipe \in Recipes : AddRecipeRejected(p, recipe) /\ Called
       \/ \E recipe \in Recipes, currentList \in getShoppingList :
            AddRecipe(p, recipe, currentList) /\ Called
       \/ \E itemId \in ItemIds, currentList \in getShoppingList :
            Toggle(p, itemId, currentList) /\ Called
       \/ \E itemId \in ItemIds, currentList \in getShoppingList :
            ToggleAbsent(p, itemId, currentList) /\ Called
       \/ \E itemId \in ItemIds, currentList \in getShoppingList :
            Remove(p, itemId, currentList) /\ Called
       \/ \E currentList \in getShoppingList : ClearChecked(p, currentList) /\ Called
       \/ ClearAll(p) /\ Called
       \/ SaveOk(p) /\ UNCHANGED calls
       \/ SaveFail(p) /\ UNCHANGED calls

Spec == Init /\ [][Next]_vars

\* one call slot: every call is awaited before the next is made
SeqNext ==
  /\ UNCHANGED <<calls, genVars, invVars, statsVars, startVars, screenVars>>
  /\ \/ \E item \in SeqAddInputs, currentList \in getShoppingList : Add(1, item, currentList)
     \/ \E recipe \in SeqRecipes : AddRecipeRejected(1, recipe)
     \/ \E recipe \in SeqRecipes, currentList \in getShoppingList :
          AddRecipe(1, recipe, currentList)
     \/ \E itemId \in ItemIds, currentList \in getShoppingList : Toggle(1, itemId, currentList)
     \/ \E itemId \in ItemIds, currentList \in getShoppingList :
          ToggleAbsent(1, itemId, currentList)
     \/ \E itemId \in ItemIds, currentList \in getShoppingList : Remove(1, itemId, currentList)
     \/ \E currentList \in getShoppingList : ClearChecked(1, currentList)
     \/ ClearAll(1)
     \/ SaveOk(1)
     \/ SaveFail(1)

SeqSpec == Init /\ [][SeqNext]_vars

\* ---------------------------------------------- recipe orchestrator: steps
\* (mutant) the catch falls back whatever enableFallback says
CaughtAlwaysFallsBack(ingredients, cause) ==
  Outcome("recipes", getFallbackRecipes(ingredients), "", cause)

\* the catch of generateRecipeSuggestions (lines 40-50)
Caught(ingredients, cause) ==
  IF config.enableFallback
  THEN Outcome("recipes", getFallbackRecipes(ingredients), "", cause)
  ELSE Outcome("error", <<>>,
               "Kunne ikke generere opskriftsforslag. Proev igen senere.", cause)

\* an error thrown while callAzureOpenAI or what follows it is under way
Fails(cause) ==
  /\ gpc' = "idle"
  /\ gOut' = Caught(gIn, cause)
  /\ UNCHANGED <<config, gIn>>

NoIngredients(ingredients) == ~ ingredients.given \/ Len(ingredients.items) = 0

\* generateRecipeSuggestions(ingredients) with no ingredients: throws in the try
GenerateWithoutIngredients(ingredients) ==
  /\ gpc = "idle"
  /\ NoIngredients(ingredients)
  /\ gIn' = ingredients
  /\ timer' = "none"
  /\ gOut' = Caught(ingredients, "noIngredients")
  /\ gText' = NoText
  /\ UNCHANGED <<config, gpc>>

\* generateRecipeSuggestions(ingredients) when isAIEnabled() is false
GenerateNotConfigured(ingredients) ==
  /\ gpc = "idle"
  /\ ~ NoIngredients(ingredients)
  /\ ~ isAIEnabled
  /\ gIn' = ingredients
  /\ timer' = "none"
  /\ gOut' = Outcome("recipes", getFallbackRecipes(ingredients), "", "notConfigured")
  /\ gText' = NoText
  /\ UNCHANGED <<config, gpc>>

\* generateRecipeSuggestions(ingredients) up to `await fetch` in
\* callAzureOpenAI: the timer is set, the request is sent
GenerateCalls(ingredients) ==
  /\ gpc = "idle"
  /\ ~ NoIngredients(ingredients)
  /\ isAIEnabled
  /\ gIn' = ingredients
  /\ timer' = "armed"
  /\ gpc' = "fetch"
  /\ gOut' = NoOutcome
  /\ gText' = NoText
  /\ UNCHANGED config

\* fetch resolves with a response; clearTimeout; then the body is awaited
FetchResolves(ok) ==
  /\ gpc = "fetch"
  /\ timer' = "cleared"
  /\ gpc' = IF ok THEN "json" ELSE "text"
  /\ UNCHANGED <<config, gIn, gOut, gText>>

\* fetch rejects with a transport error: clearTimeout, rethrown
FetchRejects ==
  /\ gpc = "fetch"
  /\ timer' = "cleared"
  /\ Fails("transport")
  /\ UNCHANGED gText

\* the timer fires: controller.abort(), fetch rejects with an AbortError,
\* 'AI request timed out' is thrown
TimeoutFires ==
  /\ gpc = "fetch"
  /\ timer = "armed"
  /\ timer' = "fired"
  /\ Fails("timeout")
  /\ UNCHANGED gText

\* !response.ok: `await response.text()` settles, the API error is thrown
ErrorBodyRead ==
  /\ gpc = "text"
  /\ Fails("http")
  /\ UNCHANGED <<timer, gText>>

\* `await response.json()` settles; then parseRecipeResponse and
\* matchRecipesWithIngredients run to the return
JsonBodyRead(body) ==
  /\ gpc = "json"
  /\ UNCHANGED timer
  /\ gText' = IF body.isJson /\ body.hasChoices THEN Returned(body.content) ELSE gText
  /\ IF ~ body.isJson \/ ~ body.hasChoices THEN Fails("body")
     ELSE LET aiRecipes == parseRecipeResponse(body.content) IN
          IF ~ aiRecipes.ok THEN Fails("parse")
          ELSE LET matched == matchRecipesWithIngredients(aiRecipes.recipes, gIn.items) IN
               IF ~ matched.ok THEN Fails("match")
               ELSE /\ gpc' = "idle"
                    /\ gOut' = Outcome("recipes", matched.recipes, "", "none")
                    /\ UNCHANGED <<config, gIn>>

GenInit ==
  /\ ShopInit
  /\ InvInit
  /\ StartRest
  /\ ScreenRest
  /\ StatsRest
  /\ config \in Configs
  /\ gpc = "idle"
  /\ gIn = Ingredients(FALSE, <<>>)
  /\ timer = "none"
  /\ gOut = NoOutcome
  /\ gText = NoText

GenNext ==
  /\ UNCHANGED <<shopVars, invVars, statsVars, startVars, screenVars>>
  /\ \/ \E ingredients \in GenIngredients : GenerateWithoutIngredients(ingredients)
     \/ \E ingredients \in GenIngredients : GenerateNotConfigured(ingredients)
     \/ \E ingredients \in GenIngredients : GenerateCalls(ingredients)
     \/ \E ok \in BOOLEAN : FetchResolves(ok)
     \/ FetchRejects
     \/ TimeoutFires
     \/ ErrorBodyRead
     \/ \E body \in Bodies : JsonBodyRead(body)

GenSpec == GenInit /\ [][GenNext]_vars

\* The event loop runs a timer that is due: the callback of setTimeout fires
\* unless clearTimeout came first.  Nothing makes the network answer.
GenFairSpec == GenSpec /\ WF_vars(TimeoutFires /\ UNCHANGED <<shopVars, invVars, statsVars, startVars, screenVars>>)

\* ------------------------------------------- inventory, categories: steps
\* addItem(itemData) up to `await scheduleExpiryNotification(item)`, which
\* gives a reminder id, or null when the date is too near or scheduling fails
AddItemStart(categoryId, reminded) ==
  /\ ~ addCall.active
  /\ ids.items < MaxCreated
  /\ LET id == "i" \o ToString(ids.items + 1)
         notificationId == "n" \o ToString(ids.reminders + 1) IN
     IF reminded
     THEN /\ scheduled' = scheduled \cup {notificationId}
          /\ addCall' = AddCall(TRUE, FoodItem(id, JsOr(categoryId, "pantry"), notificationId))
          /\ ids' = [ids EXCEPT !.items = @ + 1, !.reminders = @ + 1]
     ELSE /\ addCall' = AddCall(TRUE, FoodItem(id, JsOr(categoryId, "pantry"), Undefined))
          /\ ids' = [ids EXCEPT !.items = @ + 1]
          /\ UNCHANGED scheduled
  /\ UNCHANGED <<items, categories, catStore, deleteCall, categoryCall>>

\* addItem after the await: setItems(prev => [...prev, item])
AddItemDone ==
  /\ addCall.active
  /\ items' = Append(items, addCall.item)
  /\ addCall' = NoAddCall
  /\ UNCHANGED <<categories, catStore, scheduled, deleteCall, categoryCall, ids>>

\* deleteItem(id) of an item with a reminder, up to `await cancelNotification`
DeleteItemStart(id) ==
  /\ ~ deleteCall.active
  /\ LET found == FindFoodItem(items, id, 1) IN
     /\ found > 0
     /\ items[found].notificationId # Undefined
     /\ deleteCall' = DeleteCall(TRUE, id, items[found].notificationId)
  /\ UNCHANGED <<items, categories, catStore, scheduled, addCall, categoryCall, ids>>

\* deleteItem(id) of an item without a reminder: nothing is awaited
DeleteItemNow(id) ==
  /\ LET found == FindFoodItem(items, id, 1) IN
     /\ found > 0
     /\ items[found].notificationId = Undefined
  /\ items' = WithoutItem(items, id)
  /\ UNCHANGED <<categories, catStore, scheduled, addCall, deleteCall, categoryCall, ids>>

\* cancelNotification settles: the reminder is cancelled, or the cancel
\* failed and its catch logged it; then setItems(prev => prev.filter(...))
CancelSettles(cancelled) ==
  /\ deleteCall.active
  /\ scheduled' = IF cancelled THEN scheduled \ {deleteCall.notificationId} ELSE scheduled
  /\ items' = WithoutItem(items, deleteCall.id)
  /\ deleteCall' = NoDeleteCall
  /\ UNCHANGED <<categories, catStore, addCall, categoryCall, ids>>

\* the confirmed clearAllItems: clearStorage, then setItems([])
ClearAllItems(cleared) ==
  /\ items # <<>>
  /\ items' = IF cleared THEN <<>> ELSE items
  /\ UNCHANGED <<categories, catStore, scheduled, addCall, deleteCall, categoryCall, ids>>

\* a handler of the context awaits the storage service, which loads the list,
\* changes it and saves it; a failed save is thrown
AwaitCategories(name, categoryId, updatedCategories, saved) ==
  /\ categoryCall.name = "none"
  /\ ids.calls < MaxCategoryCalls
  /\ catStore' = IF saved THEN updatedCategories ELSE catStore
  /\ categoryCall' = CategoryCall(name, categoryId, saved,
                                  IF saved THEN updatedCategories ELSE <<>>, items)
  /\ UNCHANGED <<items, categories, scheduled, addCall, deleteCall>>

\* addCategory(category) up to `await addCategoryService(category)`
AddCategoryStart(name, loaded, saved) ==
  /\ ids.categories < MaxCreated
  /\ LET id == "c" \o ToString(ids.categories + 1)
         category == [name |-> name, icon |-> "box"] IN
     AwaitCategories("add", id, addCategoryService(loaded, category, id), saved)
  /\ ids' = [ids EXCEPT !.categories = @ + 1, !.calls = @ + 1]

\* editCategory(categoryId, updates) up to `await updateCategory(...)`
EditCategoryStart(categoryId, name, loaded, saved) ==
  /\ categoryId \in CategoryIdsOf(categories)
  /\ AwaitCategories("edit", categoryId,
                     updateCategory(loaded, categoryId, [name |-> name, icon |-> "box"]),
                     saved)
  /\ ids' = [ids EXCEPT !.calls = @ + 1]

\* removeCategory(categoryId) from the management modal, which offers every
\* category, up to `await deleteCategory(categoryId)`
RemoveCategoryStart(categoryId, loaded, saved) ==
  /\ categoryId \in CategoryIdsOf(categories)
  /\ AwaitCategories("remove", categoryId, deleteCategory(loaded, categoryId), saved)
  /\ ids' = [ids EXCEPT !.calls = @ + 1]

\* removeCategory(category.id) from the categories screen, which offers the
\* categories that are not default and hold no item
RemoveCategoryFromScreen(categoryId, loaded, saved) ==
  /\ categoryId \in CategoryIdsOf(categories)
  /\ ~ isDefaultCategory(categoryId)
  /\ \A i \in 1..Len(items) : items[i].categoryId # categoryId
  /\ AwaitCategories("remove", categoryId, deleteCategory(loaded, categoryId), saved)
  /\ ids' = [ids EXCEPT !.calls = @ + 1]

\* the storage service has settled: setCategories, and for removeCategory
\* setItems of the mapped items of the closure; nothing after a throw
CategorySettles ==
  /\ categoryCall.name # "none"
  /\ categories' = IF categoryCall.ok THEN categoryCall.updatedCategories ELSE categories
  /\ items' = IF categoryCall.ok /\ categoryCall.name = "remove"
              THEN ReassignItems(categoryCall.closureItems, categoryCall.categoryId)
              ELSE items
  /\ categoryCall' = NoCategoryCall
  /\ UNCHANGED <<catStore, scheduled, addCall, deleteCall, ids>>

InvNext ==
  /\ UNCHANGED <<shopVars, genVars, statsVars, startVars, screenVars>>
  /\ \/ \E categoryId \in CategoryIdsOf(categories), reminded \in BOOLEAN :
          AddItemStart(categoryId, reminded)
     \/ AddItemDone
     \/ \E i \in 1..Len(items) : DeleteItemStart(items[i].id)
     \/ \E i \in 1..Len(items) : DeleteItemNow(items[i].id)
     \/ \E cancelled \in BOOLEAN : CancelSettles(cancelled)
     \/ \E cleared \in BOOLEAN : ClearAllItems(cleared)
     \/ \E name \in CategoryNames, loaded \in loadCategories, saved \in BOOLEAN :
          AddCategoryStart(name, loaded, saved)
     \/ \E i \in 1..Len(categories), name \in CategoryNames,
           loaded \in loadCategories, saved \in BOOLEAN :
          EditCategoryStart(categories[i].id, name, loaded, saved)
     \/ \E i \in 1..Len(categories), loaded \in loadCategories, saved \in BOOLEAN :
          RemoveCategoryStart(categories[i].id, loaded, saved)
     \/ \E i \in 1..Len(categories), loaded \in loadCategories, saved \in BOOLEAN :
          RemoveCategoryFromScreen(categories[i].id, loaded, saved)
     \/ CategorySettles

InvSpec == Init /\ [][InvNext]_vars

\* ------------------------------------------------- provider start-up: steps
\* the inventories the store can hold when the app starts
StoredInventories ==
  { <<>>,
    <<FoodItem("s1", "fridge", Undefined)>>,
    <<FoodItem("s1", "fridge", "r1"), FoodItem("s2", "freezer", Undefined)>> }

RemindersOf(list) ==
  {list[i].notificationId : i \in {j \in 1..Len(list) : list[j].notificationId # Undefined}}

\* what `await loadItems()` can give: the stored list, or [] when the read or
\* its JSON.parse fails (storage.js lines 16-19)
loadItems == {itemStore, <<>>}

\* the provider is mounted: useState([]) twice, loading true, loadInitialData
\* awaiting the two loads; the save effect has run once and saved nothing
StartInit ==
  /\ ShopInit
  /\ StatsRest
  /\ ScreenRest
  /\ config = ReferenceConfig
  /\ gpc = "idle"
  /\ gIn = Ingredients(FALSE, <<>>)
  /\ timer = "none"
  /\ gOut = NoOutcome
  /\ gText = NoText
  /\ itemStore \in StoredInventories
  /\ items = <<>>
  /\ categories = <<>>
  /\ catStore = DEFAULT_CATEGORIES
  /\ scheduled = RemindersOf(itemStore)
  /\ addCall = NoAddCall
  /\ deleteCall = NoDeleteCall
  /\ categoryCall = NoCategoryCall
  /\ ids = [items |-> 0, categories |-> 0, reminders |-> 0, calls |-> 0]
  /\ loading = TRUE
  /\ effectDue = FALSE
  /\ saveCalls = <<>>
  /\ startLog = [load |-> "pending", mutated |-> FALSE]

\* loadInitialData after its await: setItems, setCategories, and in the
\* finally setLoading(false); neither load throws
LoadSettles(loadedItems, loadedCategories) ==
  /\ loading
  /\ items' = loadedItems
  /\ categories' = loadedCategories
  /\ loading' = FALSE
  /\ effectDue' = TRUE
  /\ startLog' = [startLog EXCEPT !.load = IF loadedItems = itemStore THEN "ok" ELSE "failed"]
  /\ UNCHANGED <<itemStore, saveCalls, catStore, scheduled, addCall, deleteCall, categoryCall, ids>>

\* (mutant) the save effect holds back the empty list
SaveEffectSkipsEmpty ==
  /\ effectDue
  /\ effectDue' = FALSE
  /\ saveCalls' = IF ~ loading /\ Len(items) > 0 THEN Append(saveCalls, items) ELSE saveCalls
  /\ UNCHANGED <<itemStore, loading, startLog, invVars>>

\* the effect on [items, loading]: saveItemsToStorage() up to `await
\* saveItems(items)` when loading is false (items.length >= 0 always holds)
SaveEffect ==
  /\ effectDue
  /\ effectDue' = FALSE
  /\ saveCalls' = IF ~ loading /\ Len(items) >= 0 THEN Append(saveCalls, items) ELSE saveCalls
  /\ UNCHANGED <<itemStore, loading, startLog, invVars>>

\* AsyncStorage.setItem settles: the list is stored, or saveItems throws and
\* the alert is shown
SaveItemsSettles(saved) ==
  /\ saveCalls # <<>>
  /\ itemStore' = IF saved THEN Head(saveCalls) ELSE itemStore
  /\ saveCalls' = Tail(saveCalls)
  /\ UNCHANGED <<loading, effectDue, startLog, invVars>>

\* a handler of the context ran once the load had settled: a change of
\* items makes the save effect due
AfterHandler ==
  /\ ~ loading
  /\ effectDue' = (effectDue \/ items' # items)
  /\ startLog' = [startLog EXCEPT !.mutated = @ \/ items' # items]
  /\ UNCHANGED <<loading, saveCalls>>

StartNext ==
  /\ UNCHANGED <<shopVars, genVars, statsVars, screenVars>>
  /\ \/ \E loadedItems \in loadItems, loadedCategories \in loadCategories :
          LoadSettles(loadedItems, loadedCategories)
     \/ SaveEffect
     \/ \E saved \in BOOLEAN : SaveItemsSettles(saved)
     \/ /\ \E categoryId \in CategoryIdsOf(categories), reminded \in BOOLEAN :
             AddItemStart(categoryId, reminded)
        /\ AfterHandler /\ UNCHANGED itemStore
     \/ AddItemDone /\ AfterHandler /\ UNCHANGED itemStore
     \/ (\E i \in 1..Len(items) : DeleteItemStart(items[i].id))
          /\ AfterHandler /\ UNCHANGED itemStore
     \/ (\E i \in 1..Len(items) : DeleteItemNow(items[i].id))
          /\ AfterHandler /\ UNCHANGED itemStore
     \/ (\E cancelled \in BOOLEAN : CancelSettles(cancelled))
          /\ AfterHandler /\ UNCHANGED itemStore
     \/ \E cleared \in BOOLEAN :
          /\ ClearAllItems(cleared)
          /\ AfterHandler
          /\ itemStore' = IF cleared THEN <<>> ELSE itemStore

StartSpec == StartInit /\ [][StartNext]_vars

\* --------------------------------------------------- recipes screen: steps
\* a loadAIRecipes call: the request it was made for, and whether it is
\* "pending" (awaiting generateRecipeSuggestions), "returned" recipes,
\* returned the "empty" array, or "threw"
LoadCall(request, state) == [request |-> request, state |-> state]

ScreenInputs ==
  {ScreenInput(inventory, difficulty) : inventory \in 0..2, difficulty \in {"all", "easy"}}

\* the screen is mounted while the inventory is still empty: the effect has
\* run its else branch
ScreenInit ==
  /\ ShopInit
  /\ InvInit
  /\ StartRest
  /\ StatsRest
  /\ config = ReferenceConfig
  /\ gpc = "idle"
  /\ gIn = Ingredients(FALSE, <<>>)
  /\ timer = "none"
  /\ gOut = NoOutcome
  /\ gText = NoText
  /\ screenIn = ScreenInput(0, "all")
  /\ loadCalls = <<>>
  /\ recipesHeld = 0
  /\ isLoadingRecipes = FALSE
  /\ recipeError = "null"

\* the inventory or the difficulty changes and there are ingredients: the
\* effect calls loadAIRecipes(), which runs up to its await of
\* generateRecipeSuggestions(prioritizedIngredients, preferences)
StartLoad(input) ==
  /\ input # screenIn
  /\ input.inventory > 0
  /\ Len(loadCalls) < MaxLoads
  /\ screenIn' = input
  /\ isLoadingRecipes' = TRUE
  /\ recipeError' = "null"
  /\ loadCalls' = Append(loadCalls, LoadCall(input, "pending"))
  /\ UNCHANGED recipesHeld

\* the inventory changes and no ingredient is left: the else branch
InventoryEmptied(input) ==
  /\ input # screenIn
  /\ input.inventory = 0
  /\ screenIn' = input
  /\ recipesHeld' = 0
  /\ recipeError' = "null"
  /\ UNCHANGED <<loadCalls, isLoadingRecipes>>

\* (mutant) the result of a load that is not the latest is dropped
LoadReturnsLatestOnly(n, some) ==
  /\ n \in 1..Len(loadCalls)
  /\ loadCalls[n].state = "pending"
  /\ recipesHeld' = IF n < Len(loadCalls) THEN recipesHeld ELSE IF some THEN n ELSE 0
  /\ isLoadingRecipes' = FALSE
  /\ loadCalls' = [loadCalls EXCEPT ![n].state = IF some THEN "returned" ELSE "empty"]
  /\ UNCHANGED <<screenIn, recipeError>>

\* generateRecipeSuggestions of load n returns: setAiRecipes(recipes), and in
\* the finally setIsLoadingRecipes(false)
LoadReturns(n, some) ==
  /\ n \in 1..Len(loadCalls)
  /\ loadCalls[n].state = "pending"
  /\ recipesHeld' = IF some THEN n ELSE 0
  /\ isLoadingRecipes' = FALSE
  /\ loadCalls' = [loadCalls EXCEPT ![n].state = IF some THEN "returned" ELSE "empty"]
  /\ UNCHANGED <<screenIn, recipeError>>

\* generateRecipeSuggestions of load n throws: setRecipeError(error.message),
\* the recipes held are kept, and in the finally setIsLoadingRecipes(false)
LoadThrows(n) ==
  /\ n \in 1..Len(loadCalls)
  /\ loadCalls[n].state = "pending"
  /\ recipeError' = "Kunne ikke generere opskriftsforslag. Proev igen senere."
  /\ isLoadingRecipes' = FALSE
  /\ loadCalls' = [loadCalls EXCEPT ![n].state = "threw"]
  /\ UNCHANGED <<screenIn, recipesHeld>>

ScreenNext ==
  /\ UNCHANGED <<shopVars, genVars, invVars, statsVars, startVars>>
  /\ \/ \E input \in ScreenInputs : StartLoad(input)
     \/ \E input \in ScreenInputs : InventoryEmptied(input)
     \/ \E n \in 1..MaxLoads, some \in BOOLEAN : LoadReturns(n, some)
     \/ \E n \in 1..MaxLoads : LoadThrows(n)

ScreenSpec == ScreenInit /\ [][ScreenNext]_vars

\* ----------------------------------------------- shopping statistics: steps
\* a list is on the screen and its statistics are not computed yet
StatsInit ==
  /\ ShopInit
  /\ InvInit
  /\ StartRest
  /\ ScreenRest
  /\ config = ReferenceConfig
  /\ gpc = "idle"
  /\ gIn = Ingredients(FALSE, <<>>)
  /\ timer = "none"
  /\ gOut = NoOutcome
  /\ gText = NoText
  /\ statsItems \in StatsLists
  /\ stats = NoStats

\* useMemo(() => getShoppingStats(shoppingList), [shoppingList])
ComputeStats ==
  /\ ~ stats.given
  /\ stats' = StatsResult(TRUE, getShoppingStats(statsItems))
  /\ UNCHANGED statsItems

StatsNext == ComputeStats /\ UNCHANGED <<shopVars, genVars, invVars, startVars, screenVars>>

StatsSpec == StatsInit /\ [][StatsNext]_vars

\* ============================================================== properties
\* helpers of the statements below
SameName(a, b) == Trim(ToLowerCase(a)) = Trim(ToLowerCase(b))

NamedAt(list, name) == {i \in 1..Len(list) : SameName(list[i].name, name)}

KeyCount(list, name) == Cardinality(NamedAt(list, name))

\* the first index of an entry of that name, 0 when there is none
IndexOfName(list, name) ==
  IF NamedAt(list, name) = {} THEN 0
  ELSE CHOOSE i \in NamedAt(list, name) : \A j \in NamedAt(list, name) : i <= j

EntryOf(list, name) == list[IndexOfName(list, name)]

\* the entry addToShoppingList(item) leaves for item's name in a call that read `list`
EntryAfterAdd(list, item) ==
  IF IndexOfName(list, item.name) > 0
  THEN MergedEntry(EntryOf(list, item.name), item)
  ELSE NewItemOfAdd(item, 0)

WithoutId(entry) == [entry EXCEPT !.id = 0]

Saving(p, name) == pc[p] = "saving" /\ op[p] = name

\* ------------------------------------------------------------------- C1
\* C1: whatever the interleaving of add, addRecipe, toggle, remove, clearChecked
\* and clearAll calls, the stored list never holds two entries whose names agree
\* once lower-cased and trimmed.
C1_OneEntryPerName ==
  \A i, j \in 1..Len(stored) :
    i # j => ~SameName(stored[i].name, stored[j].name)

\* two names are stored, one of them merged from "Milk" and "milk "
C1_Witness ==
  /\ Len(stored) = 2
  /\ \E i \in 1..Len(stored) : stored[i].amount = "1L + 2L"

\* ------------------------------------------------------------------- C2
\* q saves an addToShoppingList although another call's addToShoppingList of
\* the same name has saved since q read the list
RacingSave(q) ==
  /\ Saving(q, "add")
  /\ NameKey(arg[q].name) \in overlap[q]
  /\ SaveOk(q)

\* C2 as claimed: after both concurrent adds of a name have completed, the list
\* holds one entry for it that merges both, i.e. the entry the second add would
\* have produced from the list the first one saved (amounts combined, essential
\* OR-ed, priority the higher one).
C2_ConcurrentAddsMerge ==
  [][\A q \in Procs :
       RacingSave(q) =>
         /\ KeyCount(stored', arg[q].name) = 1
         /\ LET merged == EntryAfterAdd(stored, arg[q])
                kept == EntryOf(stored', arg[q].name) IN
            /\ kept.amount = merged.amount
            /\ Truthy(kept.essential) = Truthy(merged.essential)
            /\ kept.priority = merged.priority]_vars

\* C2 as amended: after both concurrent adds of a name have completed, the list
\* holds exactly one entry for it, never a duplicate; that entry is the one the
\* call that saved last computed from the list it had read, so the other add is
\* not merged into it.
C2_ConcurrentAddsLastSaveWins ==
  [][\A q \in Procs :
       RacingSave(q) =>
         /\ KeyCount(stored', arg[q].name) = 1
         /\ WithoutId(EntryOf(stored', arg[q].name))
              = WithoutId(EntryAfterAdd(read[q], arg[q]))]_vars

\* the second add is about to save over the first one's merge of the same name
C2_Witness ==
  \E q \in Procs :
    /\ Saving(q, "add")
    /\ NameKey(arg[q].name) \in overlap[q]
    /\ IndexOfName(stored, arg[q].name) > 0
    /\ EntryOf(stored, arg[q].name).amount # EntryOf(local[q], arg[q].name).amount

\* ------------------------------------------------------------------- C3
\* the higher of two priorities, high > medium > low
Rank(priority) ==
  CASE priority = "high" -> 3 [] priority = "medium" -> 2 [] priority = "low" -> 1
    [] OTHER -> 0

MaxPriority(a, b) == IF Rank(a) >= Rank(b) THEN a ELSE b

\* the priority an add asks for, none given counting as medium
Asked(item) == IF item.priority = Undefined THEN "medium" ELSE item.priority

\* C3: calls being made one after the other, the entry an add leaves for a name
\* has the highest priority of the adds made for it: the asked one (medium when
\* none is given) on creation, the higher of the entry's and the asked one on a
\* merge.
C3_PriorityIsMax ==
  \A p \in Procs :
    Saving(p, "add") =>
      LET idx == IndexOfName(read[p], arg[p].name)
          entry == EntryOf(local[p], arg[p].name) IN
      IF idx > 0
      THEN entry.priority = MaxPriority(read[p][idx].priority, Asked(arg[p]))
      ELSE entry.priority = Asked(arg[p])

\* ------------------------------------------------------------------- C4
\* the ingredients of a recipe that name the same entry as `name`
SameNamed(recipe, name) ==
  {i \in 1..Len(recipe.missingIngredients) :
     SameName(recipe.missingIngredients[i].name, name)}

\* C4: calls being made one after the other, the essential flag of the entry an
\* add or addRecipe leaves for a name is set exactly when it was set on the entry
\* before or is set on one of the adds made for that name: once set, it stays set.
C4_EssentialIsOr ==
  \A p \in Procs :
    /\ Saving(p, "add") =>
         LET idx == IndexOfName(read[p], arg[p].name) IN
         Truthy(EntryOf(local[p], arg[p].name).essential)
           = (\/ (idx > 0 /\ Truthy(read[p][idx].essential))
              \/ Truthy(arg[p].essential))
    /\ Saving(p, "recipe") =>
         \A i \in 1..Len(arg[p].missingIngredients) :
           LET name == arg[p].missingIngredients[i].name
               idx == IndexOfName(read[p], name) IN
           Truthy(EntryOf(local[p], name).essential)
             = (\/ (idx > 0 /\ Truthy(read[p][idx].essential))
                \/ \E j \in SameNamed(arg[p], name) :
                     Truthy(arg[p].missingIngredients[j].essential))

\* an add that is not essential has merged into an essential entry, which stays so
C4_Witness ==
  \E p \in Procs :
    /\ Saving(p, "add")
    /\ ~Truthy(arg[p].essential)
    /\ IndexOfName(read[p], arg[p].name) > 0
    /\ Truthy(EntryOf(read[p], arg[p].name).essential)
    /\ Truthy(EntryOf(local[p], arg[p].name).essential)

\* ------------------------------------------------------------------- C5
\* C5: an add that merges into an entry leaves the amount unchanged when the two
\* amounts are identical and makes it "{old} + {new}" when they differ; adding
\* {Milk, 1L} and then {"milk ", 2L} leaves the single entry Milk, "1L + 2L".
C5_AmountsCombine ==
  \A p \in Procs :
    Saving(p, "add") =>
      LET idx == IndexOfName(read[p], arg[p].name) IN
      /\ idx > 0 =>
           LET old == read[p][idx].amount
               new == arg[p].amount IN
           local[p][idx].amount =
             IF old = new THEN old
             ELSE TemplateText(old) \o " + " \o TemplateText(new)
      /\ ( /\ Len(read[p]) = 1
           /\ read[p][1].name = Milk
           /\ read[p][1].amount = "1L"
           /\ arg[p].name = MilkSp
           /\ arg[p].amount = "2L" )
         => /\ Len(local[p]) = 1
            /\ local[p][1].name = Milk
            /\ local[p][1].amount = "1L + 2L"
            /\ ~local[p][1].isChecked

\* {Milk, 1L} is stored and {"milk ", 2L} has been merged into it
C5_Witness ==
  \E p \in Procs :
    /\ Saving(p, "add")
    /\ read[p] = stored
    /\ Len(stored) = 1
    /\ stored[1].name = Milk
    /\ stored[1].amount = "1L"
    /\ arg[p].name = MilkSp
    /\ local[p][1].amount = "1L + 2L"

\* an add of the amount the entry already has has been merged into it
C5_WitnessSame ==
  \E p \in Procs :
    /\ Saving(p, "add")
    /\ IndexOfName(read[p], arg[p].name) > 0
    /\ EntryOf(read[p], arg[p].name).amount = arg[p].amount

\* ------------------------------------------------------------------- C6
\* C6: the entry an add or addRecipe creates or merges into is unchecked
\* afterwards, whatever it was before.
C6_AddUnchecks ==
  \A p \in Procs :
    /\ Saving(p, "add") => ~EntryOf(local[p], arg[p].name).isChecked
    /\ Saving(p, "recipe") =>
         \A i \in 1..Len(arg[p].missingIngredients) :
           ~EntryOf(local[p], arg[p].missingIngredients[i].name).isChecked

\* a checked entry has been added again and is unchecked in the computed list
C6_Witness ==
  \E p \in Procs :
    /\ Saving(p, "add")
    /\ IndexOfName(read[p], arg[p].name) > 0
    /\ EntryOf(read[p], arg[p].name).isChecked
    /\ ~EntryOf(local[p], arg[p].name).isChecked

\* ------------------------------------------------------------------- C7
\* the step is a call addRecipeToShoppingList(recipe) by p
CallsAddRecipe(p, recipe) ==
  /\ pc[p] = "idle"
  /\ \/ AddRecipeRejected(p, recipe)
     \/ \E currentList \in getShoppingList : AddRecipe(p, recipe, currentList)

\* C7: addRecipeToShoppingList with a recipe whose missingIngredients is absent
\* or empty throws and leaves the stored list as it was; it reads nothing and
\* reaches no save.
C7_EmptyRecipeRejected ==
  [][\A p \in Procs, recipe \in Recipes :
       ( /\ ~recipe.hasMissing \/ recipe.missingIngredients = <<>>
         /\ CallsAddRecipe(p, recipe) )
       => /\ last' = "error"
          /\ stored' = stored
          /\ pc'[p] = "idle"
          /\ local'[p] = <<>>]_vars

\* a call has thrown (only the empty recipe does) while the list held an entry
C7_Witness == last = "error" /\ stored # <<>>

\* ------------------------------------------------------------------- C8
\* addToShoppingList applied once per missing ingredient, in order, to the
\* descriptor built from it
RECURSIVE AddEach(_, _, _, _)
AddEach(list, recipe, i, id) ==
  IF i > Len(recipe.missingIngredients) THEN list
  ELSE LET next == AddStep(list, RecipeItem(recipe, recipe.missingIngredients[i]), id) IN
       AddEach(next, recipe, i + 1, id + (Len(next) - Len(list)))

Collection(list) == [i \in 1..Len(list) |-> WithoutId(list[i])]

\* C8: addRecipeToShoppingList leaves the collection (ids aside) that
\* addToShoppingList leaves when called once per missing ingredient, and returns
\* the number of entries created and the resulting size.
C8_RecipeIsRepeatedAdd ==
  \A p \in Procs :
    Saving(p, "recipe") =>
      LET byAdd == AddEach(read[p], arg[p], 1, nextId) IN
      /\ Collection(local[p]) = Collection(byAdd)
      /\ added[p] = Len(byAdd) - Len(read[p])
      /\ Len(local[p]) = Len(byAdd)

\* ------------------------------------------------------------------- C9
\* C9: when the write to the backing store fails, the operation surfaces an
\* error to its caller.
C9_FailedSaveSurfaces ==
  [][\A p \in Procs : SaveFail(p) => last' = "error"]_vars

\* ------------------------------------------------------------------ C10
\* a request has come back to its caller
Delivered == gpc = "idle" /\ gOut.status # "none"

NotConfigured ==
  config.endpoint = "" \/ config.apiKey = "" \/ config.deploymentName = ""

\* the generation call of the request failed
CallFailed ==
  gOut.cause \in {"timeout", "transport", "http", "body", "parse", "match"}

\* the caller got the two recipes of the fallback catalog, and no error
FallbackCatalogReturned ==
  /\ gOut.status = "recipes"
  /\ Len(gOut.recipes) = 2
  /\ gOut.recipes[1].id = "fallback-1" /\ gOut.recipes[2].id = "fallback-2"
  /\ \A i \in 1..2 : gOut.recipes[i].source = "Fallback Recipe"
  /\ gOut.recipes = getFallbackRecipes(gIn)

DomainError == "Kunne ikke generere opskriftsforslag. Proev igen senere."

\* C11: when fallback is disabled and the generation call fails at any step
\* (transport, timeout, HTTP status, body, parse, match), the caller gets the
\* domain error and no recipes at all.
C11_HardFailure ==
  Delivered /\ CallFailed /\ ~ config.enableFallback =>
    /\ gOut.status = "error"
    /\ gOut.message = DomainError
    /\ gOut.recipes = <<>>

C11_Witness ==
  /\ Delivered /\ gOut.cause = "parse" /\ ~ config.enableFallback
  /\ gOut.status = "error" /\ gOut.recipes = <<>>

\* ------------------------------------------------------------------ C12
\* the priority score of a recipe: its matched-ingredient count plus the
\* urgency weight of every matched item
ScoreOf(recipe) ==
  Len(recipe.matchedIngredients) + UrgencySum(recipe.matchedIngredients, 1)

CountOf(recipe) == Len(recipe.matchedIngredients)

Ordered(recipes) ==
  \A i, j \in 1..Len(recipes) :
    i < j =>
      \/ ScoreOf(recipes[i]) > ScoreOf(recipes[j])
      \/ /\ ScoreOf(recipes[i]) = ScoreOf(recipes[j])
         /\ CountOf(recipes[i]) >= CountOf(recipes[j])

\* the recipes the request hands to the screen, and the list the screen makes
\* of them on its first load
HandedBack == IF gOut.status = "recipes" THEN gOut.recipes ELSE <<>>
Shown == recipesSuggestions(gIn.items, HandedBack)

\* C12: on every path of a request (generation, fallback, static catalog) the
\* recipe list handed back is ordered by descending priority score, ties
\* broken by descending match count.
C12_OrderedByScore ==
  Delivered => Ordered(HandedBack) /\ Ordered(Shown)

\* ------------------------------------------------------------------ C13
\* callAzureOpenAI has been entered and has not yet returned or thrown
Pending == gpc \in {"fetch", "text", "json"}

DecodedArray ==
  gText.received /\ gText.response.decodes /\ gText.response.isArray

\* C14: when the text decodes to an array, parseRecipeResponse does not fail,
\* whatever is malformed, missing or wrongly typed in an element: one recipe
\* comes back per element.
C14_ParseFailsOnlyUndecodable ==
  Delivered /\ DecodedArray =>
    /\ gOut.cause # "parse"
    /\ gOut.cause = "none" => Len(gOut.recipes) = Len(gText.response.elements)

\* ------------------------------------------------------------------ C15
\* C15: every recipe parseRecipeResponse returns has a non-empty instructions
\* list, the placeholder standing in when the decoded field is absent, not a
\* list, or an empty list.
C15_InstructionsNonEmpty ==
  Delivered /\ gOut.cause = "none" =>
    \A i \in 1..Len(gOut.recipes) : Len(gOut.recipes[i].instructions) >= 1

\* C16: when removeCategory(c) of a category c that is not a default one
\* completes, c is no longer in the category list and every item references
\* a category that is in the category list.
C16_RemoveLeavesNoOrphan ==
  [][categoryCall.name = "remove" /\ categoryCall.ok
       /\ ~ isDefaultCategory(categoryCall.categoryId)
       /\ categoryCall'.name = "none"
     => /\ categoryCall.categoryId \notin CategoryIdsOf(categories')
        /\ \A i \in 1..Len(items') : items'[i].categoryId \in CategoryIdsOf(categories')]_vars

\* what removeCategory does achieve: c leaves the list and no item references c
C16_RemovedIsUnreferenced ==
  [][categoryCall.name = "remove" /\ categoryCall.ok /\ categoryCall'.name = "none"
     => /\ categoryCall.categoryId \notin CategoryIdsOf(categories')
        /\ \A i \in 1..Len(items') : items'[i].categoryId # categoryCall.categoryId]_vars

\* C17: after any sequence of category add, edit and delete operations the two
\* default categories "fridge" and "freezer" are still in the category list.
C17_DefaultsStay == {"fridge", "freezer"} \subseteq CategoryIdsOf(categories)

\* C18: when deleteItem of an item carrying a notificationId completes, the
\* item is gone from the inventory and its reminder is no longer scheduled.
C18_DeleteCancelsReminder ==
  [][deleteCall.active /\ ~ deleteCall'.active
     => /\ FindFoodItem(items', deleteCall.id, 1) = 0
        /\ deleteCall.notificationId \notin scheduled']_vars

\* what deleteItem does achieve on every outcome of the cancel: the item is gone
C18_DeletedItemIsGone ==
  [][deleteCall.active /\ ~ deleteCall'.active
     => FindFoodItem(items', deleteCall.id, 1) = 0]_vars

\* ------------------------------------------------------------------ C19
\* the list with isChecked flipped in the entries of that id, all else as it was
C19_Flipped(list, itemId) ==
  [j \in 1..Len(list) |->
     IF list[j].id = itemId THEN [list[j] EXCEPT !.isChecked = ~ list[j].isChecked]
     ELSE list[j]]

\* the step is a call toggleShoppingItem(itemId) that finds no entry of that id
C19_TogglesAbsent ==
  \E p \in Procs, itemId \in ItemIds, currentList \in getShoppingList :
    ToggleAbsent(p, itemId, currentList)

\* C19: the list toggleShoppingItem(id) saves is the list it read with isChecked
\* flipped in the entry of that id and nothing else changed, and toggling that
\* id in it again gives back the list read; when no entry has the id the call
\* returns normally and the stored list is unchanged.
C19_ToggleFlipsOnly ==
  /\ [](\A p \in Procs :
          Saving(p, "toggle") =>
            /\ local[p] = C19_Flipped(read[p], arg[p].itemId)
            /\ ToggleStep(local[p], findIndexById(local[p], arg[p].itemId)) = read[p])
  /\ [][C19_TogglesAbsent => stored' = stored /\ last' = "ok"]_vars

\* a checked entry of a list of two entries or more is being toggled
C19_Witness ==
  \E p \in Procs :
    /\ Saving(p, "toggle")
    /\ Len(read[p]) >= 2
    /\ read[p][findIndexById(read[p], arg[p].itemId)].isChecked
    /\ ~ local[p][findIndexById(read[p], arg[p].itemId)].isChecked

\* ------------------------------------------------------------------ C20
\* round(checked / total x 100) in exact arithmetic, halves rounded up
C20_Percent(checked, total) == (200 * checked + total) \div (2 * total)

C20_CheckedIn(list) == Cardinality({j \in 1..Len(list) : list[j].isChecked})

C20_EssentialIn(list) ==
  Cardinality({j \in 1..Len(list) : list[j].essential = JTrue /\ ~ list[j].isChecked})

\* the counts are right and progress is in range, and 0 for the empty list
C20_CountsAndRange ==
  stats.given =>
    /\ stats.value.total = Len(statsItems)
    /\ stats.value.checked = C20_CheckedIn(statsItems)
    /\ stats.value.checked + stats.value.unchecked = stats.value.total
    /\ stats.value.essential = C20_EssentialIn(statsItems)
    /\ stats.value.progress \in 0..100
    /\ stats.value.total = 0 => stats.value.progress = 0

\* C20: getShoppingStats returns checked + unchecked = total, the number of
\* unchecked essential entries as essential, and progress = round(checked /
\* total x 100), which is in 0..100 and is 0 when total is 0.
C20_StatsAreRight ==
  /\ C20_CountsAndRange
  /\ stats.given /\ stats.value.total > 0 =>
       stats.value.progress = C20_Percent(stats.value.checked, stats.value.total)

\* below 40 entries the doubles round as the exact quotient does
C20_ProgressOfShortLists ==
  stats.given /\ stats.value.total \in 1..39 =>
    stats.value.progress = C20_Percent(stats.value.checked, stats.value.total)

\* ------------------------------------------------------------------ C21
\* the groups the screen shows for the stored list
C21_Groups == groupShoppingListByCategory(stored)

\* high, medium, low; an entry without one of them is given the rank `missing`
C21_Rank(priority, missing) ==
  CASE priority = "high" -> 3 [] priority = "medium" -> 2 [] priority = "low" -> 1
    [] OTHER -> missing

\* a.name <= b.name, letters compared whatever their case
C21_NameLeq(a, b) == CompareLetters(ToLowerCase(a.name), ToLowerCase(b.name), 1) <= 0

\* a may stand before b: unchecked before checked, then the higher priority,
\* then the name
C21_MayPrecede(a, b, missing) ==
  IF a.isChecked # b.isChecked THEN ~ a.isChecked
  ELSE IF C21_Rank(a.priority, missing) # C21_Rank(b.priority, missing)
       THEN C21_Rank(a.priority, missing) > C21_Rank(b.priority, missing)
       ELSE C21_NameLeq(a, b)

C21_OrderedWith(missing) ==
  \A g \in 1..Len(C21_Groups) :
    \A j, k \in 1..Len(C21_Groups[g].items) :
      j < k => C21_MayPrecede(C21_Groups[g].items[j], C21_Groups[g].items[k], missing)

\* every stored entry is in one group, once, and that group is its category's
C21_Partitioned ==
  \A i \in 1..Len(stored) :
    /\ Cardinality({gj \in (1..Len(C21_Groups)) \X (1..Len(stored)) :
                      /\ gj[2] <= Len(C21_Groups[gj[1]].items)
                      /\ C21_Groups[gj[1]].items[gj[2]] = stored[i]}) = 1
    /\ \E g \in 1..Len(C21_Groups) :
         /\ C21_Groups[g].name = JsOr(stored[i].category, "Andre")
         /\ \E j \in 1..Len(C21_Groups[g].items) : C21_Groups[g].items[j] = stored[i]

\* C21: groupShoppingListByCategory puts every entry of the stored list in
\* exactly one group, that of its category, and the entries of a group stand
\* unchecked before checked, then by descending priority (high, medium, low; an
\* entry with no priority last), then by ascending name whatever the case.
C21_GroupedAndOrdered == C21_Partitioned /\ C21_OrderedWith(0)

\* the same with an entry without priority taken as medium, the default
C21_OrderedMissingAsMedium == C21_OrderedWith(2)

\* the same with an entry without priority standing first
C21_OrderedMissingFirst == C21_OrderedWith(4)

\* what does hold: the groups whose entries all have a priority are ordered
C21_OrderedWhenRanked ==
  \A g \in 1..Len(C21_Groups) :
    (\A j \in 1..Len(C21_Groups[g].items) :
       C21_Groups[g].items[j].priority \in {"high", "medium", "low"})
    => \A j, k \in 1..Len(C21_Groups[g].items) :
         j < k => C21_MayPrecede(C21_Groups[g].items[j], C21_Groups[g].items[k], 0)

\* ------------------------------------------------------------------ C22
\* the recipes matchRecipesWithIngredients was called with
C22_Input == parseRecipeResponse(gText.response)

\* matchRecipesWithIngredients was called: the completion was parsed
C22_Called ==
  Delivered /\ gText.received /\ C22_Input.ok /\ gOut.cause \in {"none", "match"}

\* the inventory item's name contains, or is contained in, a used-ingredient
\* name of the recipe, letter case aside
C22_Matches(item, recipe) ==
  \E i \in 1..Len(recipe.usedIngredients) :
    /\ recipe.usedIngredients[i].isText
    /\ \/ Includes(ToLowerCase(recipe.usedIngredients[i].name), ToLowerCase(item.name))
       \/ Includes(ToLowerCase(item.name), ToLowerCase(recipe.usedIngredients[i].name))

\* the annotated recipe is the input recipe with the matching inventory items,
\* in inventory order, and the score matched / max(used, 1)
C22_Annotated(annotated, recipe) ==
  LET Matching(item) == C22_Matches(item, recipe) IN
  /\ annotated.id = recipe.id
  /\ annotated.title = recipe.title
  /\ annotated.usedIngredients = recipe.usedIngredients
  /\ annotated.matchedIngredients = SelectSeq(gIn.items, Matching)
  /\ annotated.matchScore.num = Len(annotated.matchedIngredients)
  /\ annotated.matchScore.den =
       IF Len(recipe.usedIngredients) > 1 THEN Len(recipe.usedIngredients) ELSE 1

C22_AllAnnotated ==
  /\ Len(gOut.recipes) = Len(C22_Input.recipes)
  /\ \A r \in 1..Len(gOut.recipes) : C22_Annotated(gOut.recipes[r], C22_Input.recipes[r])

\* the stronger statement, that the call also returns for every parsed
\* completion; it fails when a used ingredient is not a text
C22_MatchAnnotatesEach ==
  C22_Called => gOut.cause = "none" /\ C22_AllAnnotated

C23_Ids0(list) == [i \in 1..Len(list) |-> WithoutId(list[i])]

\* what q's operation makes of the list q read, identifiers aside
C23_FromRead(q) ==
  C23_Ids0(
    CASE op[q] = "add" -> AddStep(read[q], arg[q], 0)
      [] op[q] = "recipe" ->
           RecipeLoop([list |-> read[q], addedCount |-> 0, nextId |-> 0], arg[q], 1).list
      [] op[q] = "toggle" -> ToggleStep(read[q], findIndexById(read[q], arg[q].itemId))
      [] op[q] = "remove" -> RemoveStep(read[q], arg[q].itemId)
      [] op[q] = "clearChecked" -> ClearCheckedStep(read[q])
      [] OTHER -> <<>>)

\* an entry another call stored while q was in flight, which q has not read
C23_Unseen(q, i) ==
  /\ NameKey(stored[i].name) \in overlap[q]
  /\ IndexOfName(read[q], stored[i].name) = 0
  /\ IndexOfName(local[q], stored[i].name) = 0

\* C23: overlapping mutations race and the last completed save wins: the save
\* of a call replaces the stored list with what the call made of the list it
\* had read, so that an entry another call stored in between is missing once
\* both have completed.
C23_LastCompletedSaveWins ==
  [][\A q \in Procs :
       pc[q] = "saving" /\ pc'[q] = "idle" /\ stored' # stored =>
         /\ C23_Ids0(stored') = C23_FromRead(q)
         /\ \A i \in 1..Len(stored) :
              C23_Unseen(q, i) => IndexOfName(stored', stored[i].name) = 0]_vars

\* the first add has saved its entry; the second call, which read the list
\* before that, is about to save a list without it
C23_Witness ==
  \E q \in Procs :
    /\ pc[q] = "saving"
    /\ \E i \in 1..Len(stored) : C23_Unseen(q, i)

\* ------------------------------------------------------------------ C24
\* the call in flight got [] from getShoppingList although entries are stored:
\* its read failed (calls are made one after the other)
C24_ReadFailed ==
  /\ pc[1] = "saving"
  /\ op[1] \in {"add", "recipe", "remove", "clearChecked"}
  /\ read[1] = <<>>
  /\ stored # <<>>

\* the entry is one the operation in flight is to take away
C24_Removes(entry) ==
  \/ op[1] = "remove" /\ entry.id = arg[1].itemId
  \/ op[1] = "clearChecked" /\ entry.isChecked

\* C24: a failed read of the stored list inside add, addFromRecipe, remove or
\* clearChecked never makes the operation overwrite the stored list with one
\* that lacks entries stored before.
C24_FailedReadLosesNothing ==
  [][C24_ReadFailed =>
       \A i \in 1..Len(stored) :
         ~ C24_Removes(stored[i]) => IndexOfName(stored', stored[i].name) > 0]_vars

\* what does hold: a call whose read gave the stored list keeps every entry
\* it is not to take away
C24_GoodReadLosesNothing ==
  [][pc[1] = "saving" /\ op[1] \in {"add", "recipe", "remove", "clearChecked"}
       /\ read[1] = stored =>
       \A i \in 1..Len(stored) :
         ~ C24_Removes(stored[i]) => IndexOfName(stored', stored[i].name) > 0]_vars

\* ------------------------------------------------------------------ C25
\* C25: a failed or unparsable read of the stored inventory at start-up never
\* leads to the stored inventory being overwritten: the save effect writes the
\* item list only after a successful load or a user mutation, never the empty
\* list a load failure produced.
C25_FailedLoadNeverOverwrites ==
  [][startLog.load = "failed" /\ ~ startLog'.mutated => itemStore' = itemStore]_vars

\* what does hold: after a successful load, and until the user changes the
\* items, what the effect saves is what was stored
C25_GoodLoadSavesTheSame ==
  [][startLog.load = "ok" /\ ~ startLog'.mutated => itemStore' = itemStore]_vars

\* ------------------------------------------------------------------ C26
\* the reminder is the one of an item of the inventory, or of the item an
\* addItem in flight is about to add
C26_Owned(notificationId) ==
  \/ \E i \in 1..Len(items) : items[i].notificationId = notificationId
  \/ addCall.active /\ addCall.item.notificationId = notificationId

\* C26: in every reachable state each scheduled reminder belongs to an item
\* that is still in the inventory: neither deleteItem nor clearAllItems leaves
\* a reminder scheduled for an item that no longer exists.
C26_RemindersHaveItems == \A notificationId \in scheduled : C26_Owned(notificationId)

\* what does hold: a reminder outlives its item only after clearAllItems or
\* a cancel that failed; the other steps leave no reminder without an item
C26_OnlyClearAndFailedCancelOrphan ==
  [][C26_RemindersHaveItems /\ ~ C26_RemindersHaveItems' =>
       \/ items' = <<>> /\ items # <<>> /\ ~ deleteCall.active
       \/ deleteCall.active /\ deleteCall.notificationId \in scheduled']_vars

\* ------------------------------------------------------------------ C27
\* the recipe, handed to addRecipeToShoppingList on an empty list, is added:
\* the call succeeds and the list holds one named entry for each distinct
\* missing ingredient
C27_CanBeAdded(recipe) ==
  LET result == addRecipeToShoppingList(recipe, <<>>) IN
  /\ result.ok
  /\ \A i \in 1..Len(recipe.missingIngredients) :
       KeyCount(result.list, recipe.missingIngredients[i].name) = 1
  /\ \A j \in 1..Len(result.list) :
       \E i \in 1..Len(recipe.missingIngredients) :
         SameName(result.list[j].name, recipe.missingIngredients[i].name)

\* C27: every recipe generateRecipeSuggestions returns, generated or fallback,
\* that has missing ingredients can be passed to addRecipeToShoppingList, which
\* succeeds and leaves one named entry per distinct missing ingredient.
C27_ReturnedRecipesCanBeAdded ==
  Delivered =>
    \A r \in 1..Len(HandedBack) :
      HandedBack[r].missingIngredients # <<>> => C27_CanBeAdded(HandedBack[r])

\* what does hold: the recipes of a parsed completion can be added
C27_GeneratedCanBeAdded ==
  Delivered /\ gOut.cause = "none" =>
    \A r \in 1..Len(HandedBack) :
      HandedBack[r].missingIngredients # <<>> => C27_CanBeAdded(HandedBack[r])

\* ------------------------------------------------------------------ C28
\* C28: generateRecipeSuggestions called with an empty or missing ingredient
\* list fails with an error and returns no recipes, whatever the fallback
\* setting.
C28_NoIngredientsFails ==
  Delivered /\ NoIngredients(gIn) => gOut.status = "error" /\ gOut.recipes = <<>>

\* what does hold: without ingredients the call fails exactly when the
\* fallback is disabled, and no request is sent either way
C28_NoIngredientsFailsWithoutFallback ==
  Delivered /\ NoIngredients(gIn) =>
    /\ gOut.cause = "noIngredients"
    /\ ~ gText.received
    /\ (gOut.status = "error" /\ gOut.recipes = <<>>) <=> ~ config.enableFallback

\* ------------------------------------------------------------------ C29
\* C29: for every recipe and inventory, the number of matched inventory items
\* matchRecipesWithIngredients reports never exceeds the recipe's number of
\* used ingredients, so that the match score is at most 1.
C29_ScoreAtMostOne ==
  C22_Called /\ gOut.cause = "none" =>
    \A r \in 1..Len(gOut.recipes) :
      /\ Len(gOut.recipes[r].matchedIngredients) <= Len(gOut.recipes[r].usedIngredients)
      /\ gOut.recipes[r].matchScore.num <= gOut.recipes[r].matchScore.den

\* what does hold: the matched items are items of the inventory, each at most
\* once and in inventory order, so the score is at most the inventory's size
C29_MatchedWithinInventory ==
  C22_Called /\ gOut.cause = "none" =>
    \A r \in 1..Len(gOut.recipes) :
      /\ Len(gOut.recipes[r].matchedIngredients) <= Len(gIn.items)
      /\ \E keep \in SUBSET (1..Len(gIn.items)) :
           LET kept(item) == \E k \in keep : gIn.items[k] = item IN
           gOut.recipes[r].matchedIngredients = SelectSeq(gIn.items, kept)

\* ------------------------------------------------------------------ C30
\* every load made has completed, at least two were made, and the one started
\* last returned recipes for the inputs the screen has now
C30_AllLoadsCompleted ==
  /\ Len(loadCalls) >= 2
  /\ \A n \in 1..Len(loadCalls) : loadCalls[n].state # "pending"
  /\ loadCalls[Len(loadCalls)].state = "returned"
  /\ loadCalls[Len(loadCalls)].request = screenIn

\* C30: when recipe loads overlap, the recipes displayed once all loads have
\* completed are the result of the most recently started load, never the
\* result of an older request that resolved later.
C30_LatestLoadIsShown ==
  C30_AllLoadsCompleted => recipesHeld = Len(loadCalls)

\* what does hold: the recipes held are those of a load that returned some
C30_HeldComeFromAReturnedLoad ==
  recipesHeld > 0 =>
    recipesHeld <= Len(loadCalls) /\ loadCalls[recipesHeld].state = "returned"

====
